---- MODULE Spec2Model ----
(***************************************************************************)
(* hiretrack backend: the Redis task queue and its worker, the idempotent  *)
(* application submission, the application status machine and the job      *)
(* read-through cache, modelled from backend/app and backend/routers.      *)
(***************************************************************************)
EXTENDS Naturals, Integers, Sequences, FiniteSets, TLC

(***************************************************************************)
(* Bounds of the model.                                                    *)
(***************************************************************************)
\* number of tasks producers enqueue in one behaviour
MaxTasks == 2

\* the worker processes consuming the queue
Workers == {"w1", "w2"}

\* number of tasks enqueued in a behaviour whose end is waited for
MaxLiveTasks == 1

\* seconds of the clock while the backoff waits are followed
MaxBackoffSeconds == 5

\* number of concurrent POST /applications requests in one behaviour
MaxSubmits == 2

\* number of concurrent PATCH /applications/{id}/status requests
MaxUpdates == 2

\* hours the clock advances in one step, and the last hour of a behaviour
HoursPerTick == 24

MaxHours == 24

\* job mutations in one behaviour
MaxMuts == 1

\* the finer step of the clock while the age of cache entries is watched,
\* and its last value
TtlSecondsPerTick == 40

TtlMaxSeconds == 80

\* the job reads of one behaviour, numbered in the order they arrive
RdReqs == {1, 2}

\* the step of the clock while the job cache is watched, and its last value
SecondsPerTick == 60

MaxSeconds == 60

(***************************************************************************)
(* Program constants.                                                      *)
(***************************************************************************)
\* worker.py: MAX_RETRIES = 3
MAX_RETRIES == 3

\* worker.py: BACKOFF_SECONDS = [1, 4, 10]
BACKOFF_SECONDS == <<1, 4, 10>>

\* worker.py: TASK_HANDLERS, the registered task types
TASK_HANDLERS == {"application.submitted", "application.status_changed"}

\* task types a producer may pass to enqueue: the registered ones and one
\* that has no handler
TaskTypes == {"application.submitted", "unknown.task.type"}

\* payloads given to enqueue, as Python literals
Payloads == {"{'applicationId': 'A1'}"}

\* payloads a caller may also pass (payload: dict[str, Any]): one with a
\* tuple among its values, one with an int key
OddPayloads == {"{'applicationId': 'A1', 'tags': ('new',)}", "{1: 'A1'}"}

\* str(exc) of the exceptions a handler or its commit raises; an exception
\* built without a message has the empty string
HandlerErrors == {"", "fail"}

TaskIds == 1..MaxTasks

\* services/applications.py: timedelta(hours=24), the lifetime of an
\* idempotency record
IDEM_TTL_HOURS == 24

\* models.py: ApplicationStatus
ApplicationStatus == {"applied", "reviewed", "interview", "rejected", "accepted"}

\* services/applications.py: TRANSITIONS
TRANSITIONS ==
    [s \in ApplicationStatus |->
        CASE s = "applied" -> {"reviewed", "rejected"}
          [] s = "reviewed" -> {"interview", "rejected"}
          [] s = "interview" -> {"accepted", "rejected"}
          [] s = "accepted" -> {}
          [] s = "rejected" -> {}]

\* models.py: JobStatus
JobStatus == {"active", "archived"}

\* users with role applicant, the jobs in the store and their employers
Applicants == {"u1"}

Jobs == {"j1", "j2"}

JobOwner == [j \in Jobs |-> IF j = "j1" THEN "e1" ELSE "e2"]

\* values of the Idempotency-Key header
Tokens == {"t1", "t2"}

SubReqs == 1..MaxSubmits

UpdReqs == 1..MaxUpdates

\* Application.id values (uuid4): at most one per submission request
AppIds == 1..MaxSubmits

NoApp == 0

NoTask == [id |-> 0]

VARIABLES
    queue,      \* Redis list queue:tasks, head first
    dlq,        \* Redis list queue:dlq
    wpc,        \* worker -> where the worker is inside run()/process_once()
    wtask,      \* worker -> the task dict it holds in memory, or NoTask
    wret,       \* worker -> what its last process_once() returned
    wdelay,     \* worker -> the delay of the asyncio.sleep it is in
    wwake,      \* worker -> the clock value at which that sleep is over
    nextId,     \* number of task ids handed out (uuid4 is fresh each time)
    enqueued,   \* ids enqueue has returned
    returned,   \* the task dicts enqueue has returned, in the order of the calls
    commits,    \* task id -> handler invocations whose commit succeeded
    failures,   \* task id -> <<str(exc), ...>> of its failed attempts, in order
    now,        \* the clock, in seconds
    applications,   \* committed rows of table applications, by id
    status_history, \* committed rows of table status_history, oldest first
    audit_logs,     \* committed rows of table audit_logs, oldest first
    idem,       \* Redis keys idem:<user>:<token> -> [value, expires]
    nextApp,    \* number of Application ids handed out
    sub,        \* POST /applications request -> its local state
    upd,        \* PATCH /applications/{id}/status request -> its local state
    jobs,       \* committed rows of table jobs, by id
    cache,      \* Redis keys jobs:... -> [value, expires]
    rd,         \* GET /jobs and GET /jobs/{id} request -> its local state
    mut         \* POST /jobs and PATCH /jobs/{id} request -> its local state

qvars == <<queue, dlq, wpc, wtask, wret, wdelay, wwake, nextId, enqueued, returned, commits,
           failures>>

avars == <<applications, status_history, audit_logs, idem, nextApp, sub, upd>>

cvars == <<cache, rd, mut>>

jvars == <<jobs, cvars>>

(***************************************************************************)
(* app/queue.py                                                            *)
(***************************************************************************)
\* the task dict enqueue builds: no 'error' key yet (error = <<>>)
NewTask(id, task_type, payload) ==
    [id |-> id, type |-> task_type, payload |-> payload, attempts |-> 0,
     error |-> <<>>]

\* redis rpush: append at the tail
rpush(list, item) == Append(list, item)

\* json.dumps of a payload: a tuple is written as an array, an int key as a
\* string
payload_dumps(payload) ==
    CASE payload \in {"{'applicationId': 'A1', 'tags': ('new',)}",
                      "{'applicationId': 'A1', 'tags': ['new']}"} ->
             "{\"applicationId\": \"A1\", \"tags\": [\"new\"]}"
      [] payload \in {"{1: 'A1'}", "{'1': 'A1'}"} -> "{\"1\": \"A1\"}"
      [] OTHER -> "{\"applicationId\": \"A1\"}"

\* a dequeue that hands the text of the payload on without parsing it
payload_loads_Raw(text) == text

\* json.loads of the text of a payload: arrays become lists, keys are strings
payload_loads(text) ==
    CASE text = "{\"applicationId\": \"A1\", \"tags\": [\"new\"]}" ->
             "{'applicationId': 'A1', 'tags': ['new']}"
      [] text = "{\"1\": \"A1\"}" -> "{'1': 'A1'}"
      [] OTHER -> "{'applicationId': 'A1'}"

\* json.dumps(task) and json.loads(raw): the id, the type, the attempts and
\* the error are strings and ints, which are read back as they were written
json_dumps(task) == [task EXCEPT !.payload = payload_dumps(@)]

json_loads(raw) == [raw EXCEPT !.payload = payload_loads(@)]

\* enqueue(task_type, payload): build the task, RPUSH it, return it
enqueue(task_type, payload) ==
    /\ nextId < MaxTasks
    /\ LET task == NewTask(nextId + 1, task_type, payload) IN
         /\ queue' = rpush(queue, json_dumps(task))
         /\ returned' = Append(returned, task)
         /\ nextId' = nextId + 1
         /\ enqueued' = enqueued \cup {task.id}
    /\ UNCHANGED <<now, avars, jvars, dlq, wpc, wtask, wret, wdelay, wwake, commits, failures>>

\* a failure branch that counts the attempt and forgets the error text
FailTask_NoError(task, msg) ==
    [task EXCEPT !.attempts = @ + 1]

\* a failure branch that counts every failed attempt twice
FailTask_CountsTwice(task, msg) ==
    [task EXCEPT !.attempts = @ + 2, !.error = <<msg>>]

\* the failure branch of process_once: attempts += 1, error = str(exc)
FailTask(task, msg) ==
    [task EXCEPT !.attempts = @ + 1, !.error = <<msg>>]

\* a backoff that waits the first delay after every failure
BackoffDelay_First(attempts) == BACKOFF_SECONDS[1]

\* delay = BACKOFF_SECONDS[min(attempts - 1, len(BACKOFF_SECONDS) - 1)]
BackoffDelay(attempts) ==
    LET last == Len(BACKOFF_SECONDS) - 1
        idx == IF attempts - 1 < last THEN attempts - 1 ELSE last
    IN BACKOFF_SECONDS[idx + 1]

(***************************************************************************)
(* app/worker.py: process_once, one step per await                         *)
(***************************************************************************)
\* a dequeue that reads the head of queue:tasks and leaves it there
Dequeue_Peek(w) ==
    /\ wpc[w] = "dequeue"
    /\ queue # <<>>
    /\ wtask' = [wtask EXCEPT ![w] = json_loads(Head(queue))]
    /\ wpc' = [wpc EXCEPT ![w] = "process_task"]
    /\ wret' = [wret EXCEPT ![w] = "running"]
    /\ UNCHANGED <<now, avars, jvars, queue, dlq, wdelay, wwake, nextId, enqueued, returned, commits, failures>>

\* a dequeue that takes the newest entry of queue:tasks (BRPOP)
Dequeue_Newest(w) ==
    /\ wpc[w] = "dequeue"
    /\ queue # <<>>
    /\ wtask' = [wtask EXCEPT ![w] = json_loads(queue[Len(queue)])]
    /\ queue' = SubSeq(queue, 1, Len(queue) - 1)
    /\ wpc' = [wpc EXCEPT ![w] = "process_task"]
    /\ wret' = [wret EXCEPT ![w] = "running"]
    /\ UNCHANGED <<now, avars, jvars, dlq, wdelay, wwake, nextId, enqueued, returned, commits,
                   failures>>

\* task = await dequeue(): BLPOP takes the head of queue:tasks
Dequeue(w) ==
    /\ wpc[w] = "dequeue"
    /\ queue # <<>>
    /\ wtask' = [wtask EXCEPT ![w] = json_loads(Head(queue))]
    /\ queue' = Tail(queue)
    /\ wpc' = [wpc EXCEPT ![w] = "process_task"]
    /\ wret' = [wret EXCEPT ![w] = "running"]
    /\ UNCHANGED <<now, avars, jvars, dlq, wdelay, wwake, nextId, enqueued, returned, commits, failures>>

\* a process_once that returns True when no task became available
DequeueTimeout_True(w) ==
    /\ wpc[w] = "dequeue"
    /\ queue = <<>>
    /\ wret' = [wret EXCEPT ![w] = "true"]
    /\ UNCHANGED <<now, avars, jvars, queue, dlq, wpc, wtask, wdelay, wwake, nextId, enqueued,
                   returned, commits, failures>>

\* BLPOP timed out on an empty list: dequeue returns None, process_once False
DequeueTimeout(w) ==
    /\ wpc[w] = "dequeue"
    /\ queue = <<>>
    /\ wret' = [wret EXCEPT ![w] = "false"]
    /\ UNCHANGED <<now, avars, jvars, queue, dlq, wpc, wtask, wdelay, wwake, nextId, enqueued, returned, commits,
                   failures>>

\* a failure branch that dead-letters only when attempts > MAX_RETRIES
Failed_RetryOnceMore(w, msg) ==
    LET task == FailTask(wtask[w], msg) IN
      /\ wtask' = [wtask EXCEPT ![w] = task]
      /\ failures' = [failures EXCEPT ![task.id] = Append(@, msg)]
      /\ IF task.attempts > MAX_RETRIES
           THEN /\ wpc' = [wpc EXCEPT ![w] = "push_dlq"]
                /\ wdelay' = wdelay
                /\ wwake' = wwake
           ELSE /\ wpc' = [wpc EXCEPT ![w] = "sleep"]
                /\ wdelay' = [wdelay EXCEPT ![w] = BackoffDelay(task.attempts)]
                /\ wwake' = [wwake EXCEPT ![w] = now + BackoffDelay(task.attempts)]
      /\ UNCHANGED <<now, avars, jvars, queue, dlq, wret, nextId, enqueued, returned, commits>>

\* a process_once without the except branch: the exception of the handler
\* leaves process_once and run()
Failed_Propagates(w, msg) ==
    /\ wpc' = [wpc EXCEPT ![w] = "raised"]
    /\ wret' = [wret EXCEPT ![w] = "raised"]
    /\ wtask' = [wtask EXCEPT ![w] = NoTask]
    /\ failures' = [failures EXCEPT ![wtask[w].id] = Append(@, msg)]
    /\ UNCHANGED <<now, avars, jvars, queue, dlq, wdelay, wwake, nextId, enqueued, returned, commits>>

\* what process_once does with a failed attempt, up to the next await
Failed(w, msg) ==
    LET task == FailTask(wtask[w], msg) IN
      /\ wtask' = [wtask EXCEPT ![w] = task]
      /\ failures' = [failures EXCEPT ![task.id] = Append(@, msg)]
      /\ IF task.attempts >= MAX_RETRIES
           THEN /\ wpc' = [wpc EXCEPT ![w] = "push_dlq"]
                /\ wdelay' = wdelay
                /\ wwake' = wwake
           ELSE /\ wpc' = [wpc EXCEPT ![w] = "sleep"]
                /\ wdelay' = [wdelay EXCEPT ![w] = BackoffDelay(task.attempts)]
                /\ wwake' = [wwake EXCEPT ![w] = now + BackoffDelay(task.attempts)]
      /\ UNCHANGED <<now, avars, jvars, queue, dlq, wret, nextId, enqueued, returned, commits>>

\* payload.get('applicationId')
payload_applicationId(payload) ==
    IF payload \in {"{'applicationId': 'A1'}", "{'applicationId': 'A1', 'tags': ['new']}"}
      THEN "A1"
      ELSE "None"

\* the audit row handle_application_submitted and
\* handle_application_status_changed add to the session
AsyncAudit(task) ==
    [actor_id |-> "None",
     action |-> IF task.type = "application.submitted"
                  THEN "application.submitted.async"
                  ELSE "application.status_changed.async",
     entity_id |-> payload_applicationId(task.payload)]

\* the rows flushed in the session of worker w and not yet committed
Pending(w) == IF wpc[w] = "commit" THEN <<AsyncAudit(wtask[w])>> ELSE <<>>

\* a flush that commits the row at once
HandlerFlush_Autocommit(w) ==
    /\ wpc[w] = "process_task"
    /\ wtask[w].type \in TASK_HANDLERS
    /\ wpc' = [wpc EXCEPT ![w] = "commit"]
    /\ audit_logs' = Append(audit_logs, AsyncAudit(wtask[w]))
    /\ UNCHANGED <<now, jvars, queue, dlq, wtask, wret, wdelay, wwake, nextId, enqueued,
                   returned, commits, failures, applications, status_history, idem,
                   nextApp, sub, upd>>

\* process_task, the handler: create_audit_log adds the row to the session
\* and flushes it; nothing is committed yet
HandlerFlush(w) ==
    /\ wpc[w] = "process_task"
    /\ wtask[w].type \in TASK_HANDLERS
    /\ wpc' = [wpc EXCEPT ![w] = "commit"]
    /\ UNCHANGED <<now, avars, jvars, queue, dlq, wtask, wret, wdelay, wwake, nextId, enqueued,
                   returned, commits, failures>>

\* process_task, the handler raised: the session is closed without a commit
HandlerRaise(w) ==
    /\ wpc[w] = "process_task"
    /\ wtask[w].type \in TASK_HANDLERS
    /\ \E msg \in HandlerErrors : Failed(w, msg)

\* a commit after which the task is pushed back to queue:tasks
SessionCommit_Requeues(w) ==
    /\ wpc[w] = "commit"
    /\ audit_logs' = audit_logs \o Pending(w)
    /\ commits' = [commits EXCEPT ![wtask[w].id] = @ + 1]
    /\ queue' = rpush(queue, json_dumps(wtask[w]))
    /\ wtask' = [wtask EXCEPT ![w] = NoTask]
    /\ wret' = [wret EXCEPT ![w] = "true"]
    /\ wpc' = [wpc EXCEPT ![w] = "dequeue"]
    /\ UNCHANGED <<now, jvars, dlq, wdelay, wwake, nextId, enqueued, returned, failures,
                   applications, status_history, idem, nextApp, sub, upd>>

\* process_task, await session.commit() succeeded: the flushed rows are
\* persisted and process_once returns True
SessionCommit(w) ==
    /\ wpc[w] = "commit"
    /\ audit_logs' = audit_logs \o Pending(w)
    /\ commits' = [commits EXCEPT ![wtask[w].id] = @ + 1]
    /\ wtask' = [wtask EXCEPT ![w] = NoTask]
    /\ wret' = [wret EXCEPT ![w] = "true"]
    /\ wpc' = [wpc EXCEPT ![w] = "dequeue"]
    /\ UNCHANGED <<now, jvars, queue, dlq, wdelay, wwake, nextId, enqueued, returned, failures,
                   applications, status_history, idem, nextApp, sub, upd>>

\* process_task, await session.commit() raised: the transaction is rolled
\* back and the session closed
SessionCommitRaise(w) ==
    /\ wpc[w] = "commit"
    /\ \E msg \in HandlerErrors : Failed(w, msg)

\* a success branch that pushes the task back to queue:tasks
ProcessTaskOk_Requeues(w) ==
    /\ wpc[w] = "process_task"
    /\ wtask[w].type \in TASK_HANDLERS
    /\ commits' = [commits EXCEPT ![wtask[w].id] = @ + 1]
    /\ queue' = rpush(queue, json_dumps(wtask[w]))
    /\ wtask' = [wtask EXCEPT ![w] = NoTask]
    /\ wret' = [wret EXCEPT ![w] = "true"]
    /\ wpc' = [wpc EXCEPT ![w] = "dequeue"]
    /\ UNCHANGED <<now, avars, jvars, dlq, wdelay, wwake, nextId, enqueued, returned, failures>>

\* process_task: the handler ran and session.commit() succeeded
ProcessTaskOk(w) ==
    /\ wpc[w] = "process_task"
    /\ wtask[w].type \in TASK_HANDLERS
    /\ commits' = [commits EXCEPT ![wtask[w].id] = @ + 1]
    /\ wtask' = [wtask EXCEPT ![w] = NoTask]
    /\ wret' = [wret EXCEPT ![w] = "true"]
    /\ wpc' = [wpc EXCEPT ![w] = "dequeue"]
    /\ UNCHANGED <<now, avars, jvars, queue, dlq, wdelay, wwake, nextId, enqueued, returned, failures>>

\* a worker whose loop ends on a task without a handler
ProcessTaskUnknown_Crashes(w) ==
    /\ wpc[w] = "process_task"
    /\ wtask[w].type \notin TASK_HANDLERS
    /\ Failed_Propagates(w, "Unknown task type")

\* process_task: no handler for the type, ValueError('Unknown task type: ..')
ProcessTaskUnknown(w) ==
    /\ wpc[w] = "process_task"
    /\ wtask[w].type \notin TASK_HANDLERS
    /\ Failed(w, "Unknown task type")

\* process_task: the handler or the commit raised; the session is rolled back
ProcessTaskRaise(w) ==
    /\ wpc[w] = "process_task"
    /\ wtask[w].type \in TASK_HANDLERS
    /\ \E msg \in HandlerErrors : Failed(w, msg)

\* a worker that takes the next task while its backoff delay runs
Sleep_TakesNext(w) ==
    /\ wpc[w] = "sleep"
    /\ queue # <<>>
    /\ wtask' = [wtask EXCEPT ![w] = json_loads(Head(queue))]
    /\ queue' = Tail(queue)
    /\ wpc' = [wpc EXCEPT ![w] = "process_task"]
    /\ UNCHANGED <<now, avars, jvars, dlq, wret, wdelay, wwake, nextId, enqueued, returned,
                   commits, failures>>

\* await asyncio.sleep(delay) is over
Sleep(w) ==
    /\ wpc[w] = "sleep"
    /\ wpc' = [wpc EXCEPT ![w] = "requeue"]
    /\ UNCHANGED <<now, avars, jvars, queue, dlq, wtask, wret, wdelay, wwake, nextId, enqueued, returned, commits,
                   failures>>

\* await asyncio.sleep(delay) with the clock: it is over once delay seconds
\* have passed since it began
SleepElapsed(w) ==
    /\ wpc[w] = "sleep"
    /\ now >= wwake[w]
    /\ wpc' = [wpc EXCEPT ![w] = "requeue"]
    /\ UNCHANGED <<now, avars, jvars, queue, dlq, wtask, wret, wdelay, wwake, nextId, enqueued,
                   returned, commits, failures>>

\* one second passes
TickBackoff ==
    /\ now < MaxBackoffSeconds
    /\ now' = now + 1
    /\ UNCHANGED <<qvars, avars, jvars>>

\* a retry that puts the task at the head of queue:tasks (LPUSH)
Requeue_AtHead(w) ==
    /\ wpc[w] = "requeue"
    /\ queue' = <<json_dumps(wtask[w])>> \o queue
    /\ wtask' = [wtask EXCEPT ![w] = NoTask]
    /\ wret' = [wret EXCEPT ![w] = "false"]
    /\ wpc' = [wpc EXCEPT ![w] = "dequeue"]
    /\ wdelay' = [wdelay EXCEPT ![w] = 0]
    /\ wwake' = [wwake EXCEPT ![w] = 0]
    /\ UNCHANGED <<now, avars, jvars, dlq, nextId, enqueued, returned, commits, failures>>

\* a retry that returns False without pushing the task back
Requeue_Drops(w) ==
    /\ wpc[w] = "requeue"
    /\ wtask' = [wtask EXCEPT ![w] = NoTask]
    /\ wret' = [wret EXCEPT ![w] = "false"]
    /\ wpc' = [wpc EXCEPT ![w] = "dequeue"]
    /\ wdelay' = [wdelay EXCEPT ![w] = 0]
    /\ wwake' = [wwake EXCEPT ![w] = 0]
    /\ UNCHANGED <<now, avars, jvars, queue, dlq, nextId, enqueued, returned, commits, failures>>

\* await requeue(task); return False
Requeue(w) ==
    /\ wpc[w] = "requeue"
    /\ queue' = rpush(queue, json_dumps(wtask[w]))
    /\ wtask' = [wtask EXCEPT ![w] = NoTask]
    /\ wret' = [wret EXCEPT ![w] = "false"]
    /\ wpc' = [wpc EXCEPT ![w] = "dequeue"]
    /\ wdelay' = [wdelay EXCEPT ![w] = 0]
    /\ wwake' = [wwake EXCEPT ![w] = 0]
    /\ UNCHANGED <<now, avars, jvars, dlq, nextId, enqueued, returned, commits, failures>>

\* a dead-letter push that also puts the task back on queue:tasks
PushDlq_AlsoRequeues(w) ==
    /\ wpc[w] = "push_dlq"
    /\ dlq' = rpush(dlq, json_dumps(wtask[w]))
    /\ queue' = rpush(queue, json_dumps(wtask[w]))
    /\ wtask' = [wtask EXCEPT ![w] = NoTask]
    /\ wret' = [wret EXCEPT ![w] = "false"]
    /\ wpc' = [wpc EXCEPT ![w] = "dequeue"]
    /\ UNCHANGED <<now, avars, jvars, wdelay, wwake, nextId, enqueued, returned, commits,
                   failures>>

\* await push_dlq(task); return False
PushDlq(w) ==
    /\ wpc[w] = "push_dlq"
    /\ dlq' = rpush(dlq, json_dumps(wtask[w]))
    /\ wtask' = [wtask EXCEPT ![w] = NoTask]
    /\ wret' = [wret EXCEPT ![w] = "false"]
    /\ wpc' = [wpc EXCEPT ![w] = "dequeue"]
    /\ UNCHANGED <<now, avars, jvars, queue, wdelay, wwake, nextId, enqueued, returned, commits, failures>>

\* a Redis call of process_once raised (connection lost, timeout): nothing in
\* process_once or run() catches it, so the loop ends and the task dict it
\* held is gone
RedisRaise(w) ==
    /\ wpc[w] \in {"dequeue", "requeue", "push_dlq"}
    /\ wpc' = [wpc EXCEPT ![w] = "raised"]
    /\ wtask' = [wtask EXCEPT ![w] = NoTask]
    /\ wret' = [wret EXCEPT ![w] = "raised"]
    /\ UNCHANGED <<now, avars, jvars, queue, dlq, wdelay, wwake, nextId, enqueued, returned, commits, failures>>

\* a Redis call of process_once raised after the server had carried it out
\* (the reply was lost): the list has changed and the loop ends all the same
RedisRaiseAfter(w) ==
    /\ wpc[w] \in {"dequeue", "requeue", "push_dlq"}
    /\ wpc[w] = "dequeue" => queue # <<>>
    /\ queue' = CASE wpc[w] = "dequeue" -> Tail(queue)
                  [] wpc[w] = "requeue" -> rpush(queue, json_dumps(wtask[w]))
                  [] OTHER -> queue
    /\ dlq' = IF wpc[w] = "push_dlq" THEN rpush(dlq, json_dumps(wtask[w])) ELSE dlq
    /\ wpc' = [wpc EXCEPT ![w] = "raised"]
    /\ wtask' = [wtask EXCEPT ![w] = NoTask]
    /\ wret' = [wret EXCEPT ![w] = "raised"]
    /\ UNCHANGED <<now, avars, jvars, wdelay, wwake, nextId, enqueued, returned, commits, failures>>

\* the worker process stops (kill, deploy, host failure) wherever it is
Stop(w) ==
    /\ wpc[w] \notin {"raised", "stopped"}
    /\ wpc' = [wpc EXCEPT ![w] = "stopped"]
    /\ wtask' = [wtask EXCEPT ![w] = NoTask]
    /\ UNCHANGED <<now, avars, jvars, queue, dlq, wret, wdelay, wwake, nextId, enqueued, returned, commits, failures>>

\* main(): the process is started again
Restart(w) ==
    /\ wpc[w] \in {"raised", "stopped"}
    /\ wpc' = [wpc EXCEPT ![w] = "dequeue"]
    /\ wret' = [wret EXCEPT ![w] = "none"]
    /\ wdelay' = [wdelay EXCEPT ![w] = 0]
    /\ wwake' = [wwake EXCEPT ![w] = 0]
    /\ UNCHANGED <<now, avars, jvars, queue, dlq, wtask, nextId, enqueued, returned, commits, failures>>

(***************************************************************************)
(* The clock and the Redis keys that expire.                               *)
(***************************************************************************)
\* int(timedelta(hours=24).total_seconds())
IdemTtlSeconds == IDEM_TTL_HOURS * 3600

\* redis GET: the value of a key that exists and has not expired, else None
redis_get(store, key) ==
    IF key \in DOMAIN store /\ store[key].expires > now
        THEN store[key].value
        ELSE NoApp

\* redis SETEX: set the value and restart the lifetime, whatever was there
redis_setex(store, key, ttl, value) ==
    [k \in DOMAIN store \cup {key} |->
        IF k = key THEN [value |-> value, expires |-> now + ttl] ELSE store[k]]

\* scan_iter(match='jobs:*'): the pattern matches the keys that start with jobs:
MatchesJobs(key) == Len(key) >= 5 /\ SubSeq(key, 1, 5) = "jobs:"

\* time passes; MaxHours ends the behaviour
TickHours ==
    /\ now + HoursPerTick * 3600 <= MaxHours * 3600
    /\ now' = now + HoursPerTick * 3600
    /\ UNCHANGED <<qvars, avars, jvars>>

(***************************************************************************)
(* routers/applications.py create_application and                          *)
(* services/applications.py apply_for_job, one step per await              *)
(***************************************************************************)
\* key = f'idem:{user.id}:{idempotency_key}'
idem_key(user, token) == "idem:" \o user \o ":" \o token

\* a request's local state: where it is (pc), its inputs, the locals of
\* apply_for_job, its response (code, id, created: the id is of a row this
\* request inserted), and what it met on the way: when it arrived (at),
\* whether the pair had a committed application then (dup), whether its
\* idempotency lookup found no record (miss), whether it saw the job active
IdleSub == [pc |-> "idle", user |-> "", job_id |-> "", token |-> "",
            existing_id |-> NoApp, app |-> NoApp, code |-> 0, id |-> NoApp,
            created |-> FALSE, at |-> 0, dup |-> FALSE, miss |-> FALSE,
            job_ok |-> FALSE]

\* the request ends with this status code; id is the application in the body
Respond(r, code, id, created) ==
    [sub[r] EXCEPT !.pc = "done", !.code = code, !.id = id,
                   !.created = created, !.existing_id = NoApp, !.app = NoApp]

\* committed application of the pair, as a set of ids
AppsOf(job_id, user) ==
    {a \in DOMAIN applications :
        applications[a].job_id = job_id /\ applications[a].applicant_id = user}

\* the tokens a new request may carry: one that a request has carried, or
\* the first that none has (a token is an opaque string the client makes up)
NextTokens ==
    LET used == {sub[q].token : q \in SubReqs} \cap Tokens
    IN  used \cup (IF "t1" \notin used THEN {"t1"} ELSE Tokens \ used)

\* a POST /applications arrives with its Idempotency-Key header (requests
\* are numbered in the order they arrive)
SubmitBegin(r) ==
    /\ sub[r].pc = "idle"
    /\ \A q \in SubReqs : q < r => sub[q].pc # "idle"
    /\ \E u \in Applicants, j \in Jobs, t \in NextTokens :
          sub' = [sub EXCEPT ![r] = [IdleSub EXCEPT !.pc = "idem_get",
                                     !.user = u, !.job_id = j, !.token = t,
                                     !.at = now, !.dup = AppsOf(j, u) # {}]]
    /\ UNCHANGED <<now, qvars, jvars, applications, status_history, audit_logs,
                   idem, nextApp, upd>>

\* existing_id = await redis_client.get(key)
IdemGet(r) ==
    /\ sub[r].pc = "idem_get"
    /\ LET existing_id == redis_get(idem, idem_key(sub[r].user, sub[r].token)) IN
         sub' = [sub EXCEPT ![r].existing_id = existing_id,
                            ![r].miss = (existing_id = NoApp),
                            ![r].pc = IF existing_id # NoApp THEN "get_existing"
                                                           ELSE "get_job"]
    /\ UNCHANGED <<now, qvars, jvars, applications, status_history, audit_logs,
                   idem, nextApp, upd>>

\* the Redis GET raised: apply_for_job lets it through, the request fails
IdemGetRaise(r) ==
    /\ sub[r].pc = "idem_get"
    /\ sub' = [sub EXCEPT ![r] = Respond(r, 500, NoApp, FALSE)]
    /\ UNCHANGED <<now, qvars, jvars, applications, status_history, audit_logs,
                   idem, nextApp, upd>>

\* a replay that also renews the idempotency record it found
GetExisting_RenewsRecord(r) ==
    /\ sub[r].pc = "get_existing"
    /\ sub' = [sub EXCEPT ![r] =
                 IF sub[r].existing_id \in DOMAIN applications
                     THEN Respond(r, 201, sub[r].existing_id, FALSE)
                     ELSE [sub[r] EXCEPT !.pc = "get_job"]]
    /\ idem' = redis_setex(idem, idem_key(sub[r].user, sub[r].token),
                           IdemTtlSeconds + 1, sub[r].existing_id)
    /\ UNCHANGED <<now, qvars, jvars, applications, status_history, audit_logs,
                   nextApp, upd>>

\* existing = await session.get(Application, UUID(existing_id));
\* if existing: return existing   (then the router commits nothing, 201)
GetExisting(r) ==
    /\ sub[r].pc = "get_existing"
    /\ sub' = [sub EXCEPT ![r] =
                 IF sub[r].existing_id \in DOMAIN applications
                     THEN Respond(r, 201, sub[r].existing_id, FALSE)
                     ELSE [sub[r] EXCEPT !.pc = "get_job"]]
    /\ UNCHANGED <<now, qvars, jvars, applications, status_history, audit_logs,
                   idem, nextApp, upd>>

\* job = await session.get(Job, job_id); not job or not active: 404
GetJob(r) ==
    /\ sub[r].pc = "get_job"
    /\ sub' = [sub EXCEPT ![r] =
                 IF sub[r].job_id \in DOMAIN jobs /\ jobs[sub[r].job_id].status = "active"
                     THEN [sub[r] EXCEPT !.pc = "select_existing", !.job_ok = TRUE]
                     ELSE Respond(r, 404, NoApp, FALSE)]
    /\ UNCHANGED <<now, qvars, jvars, applications, status_history, audit_logs,
                   idem, nextApp, upd>>

\* select(Application).where(job_id, applicant_id): a row exists: 409
SelectExisting(r) ==
    /\ sub[r].pc = "select_existing"
    /\ sub' = [sub EXCEPT ![r] =
                 IF AppsOf(sub[r].job_id, sub[r].user) # {}
                     THEN Respond(r, 409, NoApp, FALSE)
                     ELSE [sub[r] EXCEPT !.pc = "flush"]]
    /\ UNCHANGED <<now, qvars, jvars, applications, status_history, audit_logs,
                   idem, nextApp, upd>>

\* requests that have inserted a row for the pair and not yet committed it
PendingInsert(job_id, user) ==
    {q \in SubReqs : /\ sub[q].pc \in {"setex", "commit"}
                     /\ sub[q].job_id = job_id
                     /\ sub[q].user = user}

\* a flush against a table without the unique constraint
Flush_NoUniqueConstraint(r) ==
    /\ sub[r].pc = "flush"
    /\ sub' = [sub EXCEPT ![r].app = nextApp + 1, ![r].pc = "setex"]
    /\ nextApp' = nextApp + 1
    /\ UNCHANGED <<now, qvars, jvars, applications, status_history, audit_logs,
                   idem, upd>>

\* session.add(application); await session.flush(): the INSERT waits for a
\* transaction holding the same (job_id, applicant_id) in the unique index,
\* and fails with IntegrityError (409) when that row is committed.  The
\* status_history row and the audit row are added to the same transaction.
Flush(r) ==
    /\ sub[r].pc = "flush"
    /\ PendingInsert(sub[r].job_id, sub[r].user) = {}
    /\ IF AppsOf(sub[r].job_id, sub[r].user) # {}
         THEN /\ sub' = [sub EXCEPT ![r] = Respond(r, 409, NoApp, FALSE)]
              /\ nextApp' = nextApp
         ELSE /\ sub' = [sub EXCEPT ![r].app = nextApp + 1, ![r].pc = "setex"]
              /\ nextApp' = nextApp + 1
    /\ UNCHANGED <<now, qvars, jvars, applications, status_history, audit_logs,
                   idem, upd>>

\* await redis_client.setex(key, 86400, str(application.id)), an unconditional
\* write issued before the router commits
Setex(r) ==
    /\ sub[r].pc = "setex"
    /\ idem' = redis_setex(idem, idem_key(sub[r].user, sub[r].token),
                           IdemTtlSeconds, sub[r].app)
    /\ sub' = [sub EXCEPT ![r].pc = "commit"]
    /\ UNCHANGED <<now, qvars, jvars, applications, status_history, audit_logs,
                   nextApp, upd>>

\* a submission that goes on to its commit when the SETEX raised
SetexRaise_Swallowed(r) ==
    /\ sub[r].pc = "setex"
    /\ sub' = [sub EXCEPT ![r].pc = "commit"]
    /\ UNCHANGED <<now, qvars, jvars, applications, status_history, audit_logs,
                   idem, nextApp, upd>>

\* the SETEX raised: the request fails and its transaction is rolled back
SetexRaise(r) ==
    /\ sub[r].pc = "setex"
    /\ sub' = [sub EXCEPT ![r] = Respond(r, 500, NoApp, FALSE)]
    /\ UNCHANGED <<now, qvars, jvars, applications, status_history, audit_logs,
                   idem, nextApp, upd>>

\* a submission whose commit persists the application without its history row
Commit_WithoutHistory(r) ==
    /\ sub[r].pc = "commit"
    /\ LET a == sub[r].app IN
         /\ applications' = applications @@
                (a :> [job_id |-> sub[r].job_id, applicant_id |-> sub[r].user,
                       status |-> "applied"])
         /\ audit_logs' = Append(audit_logs,
                [actor_id |-> sub[r].user, action |-> "application.created",
                 entity_id |-> a])
         /\ sub' = [sub EXCEPT ![r] = Respond(r, 201, a, TRUE)]
    /\ UNCHANGED <<now, qvars, jvars, status_history, idem, nextApp, upd>>

\* await session.commit(); return ApplicationResponse (201).  Nothing is
\* enqueued: no caller of enqueue exists in the routers or the services.
Commit(r) ==
    /\ sub[r].pc = "commit"
    /\ LET a == sub[r].app IN
         /\ applications' = applications @@
                (a :> [job_id |-> sub[r].job_id, applicant_id |-> sub[r].user,
                       status |-> "applied"])
         /\ status_history' = Append(status_history,
                [application_id |-> a, status |-> "applied",
                 changed_by |-> sub[r].user])
         /\ audit_logs' = Append(audit_logs,
                [actor_id |-> sub[r].user, action |-> "application.created",
                 entity_id |-> a])
         /\ sub' = [sub EXCEPT ![r] = Respond(r, 201, a, TRUE)]
    /\ UNCHANGED <<now, qvars, jvars, idem, nextApp, upd>>

\* the commit failed (connection lost, server restart): nothing is persisted,
\* the idempotency key written before it stays
CommitRaise(r) ==
    /\ sub[r].pc = "commit"
    /\ sub' = [sub EXCEPT ![r] = Respond(r, 500, NoApp, FALSE)]
    /\ UNCHANGED <<now, qvars, jvars, applications, status_history, audit_logs,
                   idem, nextApp, upd>>

\* PATCH /jobs/{id} with a new status (archive, reactivate), the whole handler
\* run while no other job request is in flight and with every Redis call
\* succeeding: the row is committed, then every jobs:* key is deleted
UpdateJobStatus(j, status) ==
    /\ j \in DOMAIN jobs
    /\ jobs[j].status # status
    /\ \A r \in DOMAIN rd : rd[r].pc \in {"idle", "done"}
    /\ \A m \in DOMAIN mut : mut[m].pc \in {"idle", "done"}
    /\ jobs' = [jobs EXCEPT ![j].status = status]
    /\ cache' = [k \in {q \in DOMAIN cache : ~MatchesJobs(q)} |-> cache[k]]
    /\ UNCHANGED <<now, qvars, avars, rd, mut>>

(***************************************************************************)
(* routers/applications.py update_status and                               *)
(* services/applications.py update_application_status                      *)
(***************************************************************************)
\* users allowed through require_roles(employer, admin)
UpdActors == {"e1", "adm"}

UserRole ==
    [u \in {"u1", "e1", "e2", "adm"} |->
        CASE u = "adm" -> "admin"
          [] u = "u1" -> "applicant"
          [] OTHER -> "employer"]

\* a request's local state: its inputs, application.status as its session
\* loaded it (cur), what update_application_status did (result) and the
\* status code of the response
IdleUpd == [pc |-> "idle", app |-> NoApp, new_status |-> "", actor |-> "",
            cur |-> "", result |-> "", code |-> 0]

UpdRespond(r, code) == [upd[r] EXCEPT !.pc = "done", !.code = code]

\* a PATCH /applications/{id}/status arrives, for an id that was handed out
\* or for one that was not (requests are numbered in the order they arrive)
UpdateBegin(r) ==
    /\ upd[r].pc = "idle"
    /\ \A q \in UpdReqs : q < r => upd[q].pc # "idle"
    /\ \E a \in 1..(nextApp + 1), st \in ApplicationStatus, u \in UpdActors :
          upd' = [upd EXCEPT ![r] = [IdleUpd EXCEPT !.pc = "get", !.app = a,
                                     !.new_status = st, !.actor = u]]
    /\ UNCHANGED <<now, qvars, jvars, applications, status_history, audit_logs,
                   idem, nextApp, sub>>

\* ensure_employer_application_access
EmployerAccess(user, application) ==
    \/ UserRole[user] = "admin"
    \/ /\ application.job_id \in DOMAIN jobs
       /\ jobs[application.job_id].employer_id = user

\* application = await session.get(Application, id): 404 when absent, 403
\* for an employer who does not own the job; no row lock is taken
UpdateGet(r) ==
    /\ upd[r].pc = "get"
    /\ upd' = [upd EXCEPT ![r] =
                 IF upd[r].app \notin DOMAIN applications
                     THEN UpdRespond(r, 404)
                 ELSE IF ~EmployerAccess(upd[r].actor, applications[upd[r].app])
                     THEN UpdRespond(r, 403)
                 ELSE [upd[r] EXCEPT !.pc = "update",
                                     !.cur = applications[upd[r].app].status]]
    /\ UNCHANGED <<now, qvars, jvars, applications, status_history, audit_logs,
                   idem, nextApp, sub>>

\* requests whose transaction has updated the row and not yet committed
RowLocked(a) == {q \in UpdReqs : upd[q].pc = "commit" /\ upd[q].app = a}

\* a transition check that also lets a status be set to itself
Allowed_OrSame(current) == TRANSITIONS[current] \cup {current}

\* allowed = TRANSITIONS.get(application.status, set())
Allowed(current) == TRANSITIONS[current]

\* update_application_status: invalid_transition (409) when the new status
\* is not allowed from the loaded one; else the UPDATE of the row (it waits
\* for a transaction that holds the row), the history row and the audit row
\* are flushed
UpdateStatus(r) ==
    /\ upd[r].pc = "update"
    /\ IF upd[r].new_status \notin Allowed(upd[r].cur)
         THEN upd' = [upd EXCEPT ![r] =
                        [UpdRespond(r, 409) EXCEPT !.result = "invalid_transition"]]
         ELSE /\ RowLocked(upd[r].app) = {}
              /\ upd' = [upd EXCEPT ![r].pc = "commit", ![r].result = "ok"]
    /\ UNCHANGED <<now, qvars, jvars, applications, status_history, audit_logs,
                   idem, nextApp, sub>>

\* a commit whose history row carries the status the application had
UpdateCommit_HistoryOfOldStatus(r) ==
    /\ upd[r].pc = "commit"
    /\ applications' = [applications EXCEPT ![upd[r].app].status = upd[r].new_status]
    /\ status_history' = Append(status_history,
           [application_id |-> upd[r].app, status |-> upd[r].cur,
            changed_by |-> upd[r].actor])
    /\ audit_logs' = Append(audit_logs,
           [actor_id |-> upd[r].actor, action |-> "application.status_changed",
            entity_id |-> upd[r].app])
    /\ upd' = [upd EXCEPT ![r] = UpdRespond(r, 200)]
    /\ UNCHANGED <<now, qvars, jvars, idem, nextApp, sub>>

\* await session.commit(): UPDATE applications SET status = new WHERE id = ..
UpdateCommit(r) ==
    /\ upd[r].pc = "commit"
    /\ applications' = [applications EXCEPT ![upd[r].app].status = upd[r].new_status]
    /\ status_history' = Append(status_history,
           [application_id |-> upd[r].app, status |-> upd[r].new_status,
            changed_by |-> upd[r].actor])
    /\ audit_logs' = Append(audit_logs,
           [actor_id |-> upd[r].actor, action |-> "application.status_changed",
            entity_id |-> upd[r].app])
    /\ upd' = [upd EXCEPT ![r] = UpdRespond(r, 200)]
    /\ UNCHANGED <<now, qvars, jvars, idem, nextApp, sub>>

\* the commit failed: the transaction is rolled back
UpdateCommitRaise(r) ==
    /\ upd[r].pc = "commit"
    /\ upd' = [upd EXCEPT ![r] = UpdRespond(r, 500)]
    /\ UNCHANGED <<now, qvars, jvars, applications, status_history, audit_logs,
                   idem, nextApp, sub>>

(***************************************************************************)
(* app/cache.py, routers/jobs.py and services/jobs.py, one step per await  *)
(***************************************************************************)
CACHE_TTL_SECONDS == 60

MutReqs == 1..MaxMuts

\* users that list jobs (the applicant and every employer that owns a job),
\* users that read one job (those employers), and users that post and patch
\* jobs
ListUsers == {"u1"} \cup {jobs[j].employer_id : j \in DOMAIN jobs}

DetailUsers == {u \in ListUsers : UserRole[u] = "employer"}

DetailJobs == {"j1"}

MutActors == {"e1"}

\* jobs a PATCH names, and the status a POST gives its job
PatchJobs == {"j1"}

PostStatus == {"active"}

\* get_job found no row
NoJob == [id |-> ""]

\* the where clauses list_jobs and get_job add for the role of the user
Visible(user, j) ==
    CASE UserRole[user] = "applicant" -> jobs[j].status = "active"
      [] UserRole[user] = "employer" -> jobs[j].employer_id = user
      [] OTHER -> TRUE

\* list_jobs with no filter and the default page: the rows the user may see
list_jobs(user) ==
    {[id |-> j, status |-> jobs[j].status, employer_id |-> jobs[j].employer_id] :
        j \in {i \in DOMAIN jobs : Visible(user, i)}}

\* get_job: the row, if it exists and the user may see it
get_job(job_id, user) ==
    IF job_id \in DOMAIN jobs /\ Visible(user, job_id)
        THEN [id |-> job_id, status |-> jobs[job_id].status,
              employer_id |-> jobs[job_id].employer_id]
        ELSE NoJob

\* user_key = str(user.id) if user.role == UserRole.employer else 'global'
user_key(user) == IF UserRole[user] = "employer" THEN user ELSE "global"

\* a cache_key of list_jobs_endpoint without the role and the user_key
list_cache_key_Unscoped(user) == "jobs:list:::1:10"

\* cache_key of list_jobs_endpoint, for query, location, company None and
\* page, pageSize None
list_cache_key(user) ==
    "jobs:list:" \o UserRole[user] \o ":" \o user_key(user) \o ":::1:10"

\* cache_key of get_job_endpoint
detail_cache_key(user, job_id) ==
    "jobs:detail:" \o UserRole[user] \o ":" \o user_key(user) \o ":" \o job_id

(***************************************************************************)
(* GET /jobs with its query parameters: the cache key and the query.       *)
(***************************************************************************)
\* values of ?query=, ?location=, ?company= ("" is None or the empty
\* string, which the 'or' and the 'if' of the code treat alike)
QueryParams == {"", "a", "A", "a:b"}

LocationParams == {"", "b:"}

CompanyParams == {"", "c"}

\* values of ?page= and ?pageSize= (0 is None or 0, which 'or' treats alike)
PageParams == {0, 1, 2}

PageSizeParams == {0, 1}

\* the jobs table of the parameter reads, newest first (created_at desc)
ListedJobs == <<"j2", "j1">>

ListedRows ==
    ("j1" :> [employer_id |-> "e1", status |-> "active", title |-> "xa",
              description |-> "", location |-> "b:y", company |-> "c"]) @@
    ("j2" :> [employer_id |-> "e2", status |-> "active", title |-> "a:b",
              description |-> "", location |-> "z", company |-> "c"])

\* str(n) of the page numbers and sizes that occur
IntStr(n) == CASE n = 1 -> "1" [] n = 2 -> "2" [] n = 10 -> "10" [] OTHER -> "0"

\* lower(): the case folding ILIKE applies to both sides
Lower(str) == IF str = "A" THEN "a" ELSE str

\* value ILIKE '%pattern%'
ilike(value, pattern) ==
    \E i \in 1..(Len(value) - Len(pattern) + 1) :
       SubSeq(Lower(value), i, i + Len(pattern) - 1) = Lower(pattern)

\* apply_job_filters: a clause for every parameter that is not falsy
apply_job_filters(row, query, location, company) ==
    /\ query # "" => ilike(row.title, query) \/ ilike(row.description, query)
    /\ location # "" => ilike(row.location, location)
    /\ company # "" => ilike(row.company, company)

\* paginate: safe_page = max(page or 1, 1), safe_size = max(page_size or 10, 1)
paginate(page, page_size) ==
    [page |-> IF page = 0 THEN 1 ELSE IF page < 1 THEN 1 ELSE page,
     page_size |-> IF page_size = 0 THEN 10 ELSE IF page_size < 1 THEN 1 ELSE page_size]

\* list_jobs with its parameters, and the page the endpoint builds from it
list_jobs_page(user, query, location, company, page, page_size) ==
    LET p == paginate(page, page_size)
        matching == SelectSeq(ListedJobs,
                        LAMBDA j : /\ Visible(user, j)
                                   /\ apply_job_filters(jobs[j], query, location, company))
        first == (p.page - 1) * p.page_size + 1
        last == IF first + p.page_size - 1 < Len(matching)
                  THEN first + p.page_size - 1 ELSE Len(matching)
    IN  [items |-> SubSeq(matching, first, last), page |-> p.page,
         pageSize |-> p.page_size, total |-> Len(matching)]

\* cache_key = f"jobs:list:{role}:{user_key}:{query or ''}:{location or ''}:
\* {company or ''}:{page or 1}:{pageSize or 10}"
list_cache_key_of(user, query, location, company, page, page_size) ==
    "jobs:list:" \o UserRole[user] \o ":" \o user_key(user) \o ":" \o query \o ":"
        \o location \o ":" \o company \o ":" \o IntStr(IF page = 0 THEN 1 ELSE page)
        \o ":" \o IntStr(IF page_size = 0 THEN 10 ELSE page_size)

\* a GET /jobs request with parameters: its inputs, its cache key and the
\* page its query returns
ParamRd(user, query, location, company, page, page_size) ==
    [pc |-> "params", user |-> user, query |-> query, location |-> location,
     company |-> company, page |-> page, pageSize |-> page_size, key |-> "",
     data |-> {}]

\* cache_key = f"jobs:list:..." of the request
ListKey(r) ==
    /\ rd[r].pc = "params"
    /\ rd' = [rd EXCEPT ![r].pc = "keyed",
                       ![r].key = list_cache_key_of(rd[r].user, rd[r].query,
                                      rd[r].location, rd[r].company, rd[r].page,
                                      rd[r].pageSize)]
    /\ UNCHANGED <<now, qvars, avars, jobs, cache, mut>>

\* items, page, page_size, total = await list_jobs(...) of the request
ListQuery(r) ==
    /\ rd[r].pc = "keyed"
    /\ rd' = [rd EXCEPT ![r].pc = "listed",
                       ![r].data = list_jobs_page(rd[r].user, rd[r].query,
                                       rd[r].location, rd[r].company, rd[r].page,
                                       rd[r].pageSize)]
    /\ UNCHANGED <<now, qvars, avars, jobs, cache, mut>>

\* a read request's local state: its inputs, what it got from the cache or
\* from the database (data), and three records of its history: the mutations
\* that had responded when it arrived (after), the mutations committed after
\* its data was read from the database (old), and the ones among them that
\* were committed before the data was stored in the cache (late)
IdleRd == [pc |-> "idle", user |-> "", view |-> "", job_id |-> "", key |-> "",
           data |-> {}, hit |-> FALSE, after |-> {}, old |-> {}, late |-> {},
           since |-> {}, stale_for |-> {}, cached_for |-> 0, code |-> 0,
           masked |-> FALSE]

\* a mutation request's local state: its inputs, the keys its scan has
\* returned and not yet deleted (todo), whether its invalidation raised
\* (fault), whether it has deleted a key (swept)
IdleMut == [pc |-> "idle", kind |-> "", user |-> "", job_id |-> "",
            status |-> "", todo |-> {}, fault |-> FALSE, swept |-> FALSE,
            code |-> 0]

\* the response is sent: of the request remain its status code and the
\* mutations that had responded before it arrived
RdRespond(r, code) == [IdleRd EXCEPT !.pc = "done", !.code = code,
                                     !.after = rd[r].after]

\* mutations whose handler has returned its response after a commit
Responded == {m \in MutReqs : mut[m].pc = "done" /\ mut[m].code \in {200, 201}}

\* get_cached found no raw value
None == [raw |-> ""]

\* get_cached with Redis answering: the value of a key that exists and has
\* not expired, else None
get_cached(key) ==
    IF key \in DOMAIN cache /\ cache[key].expires > now
        THEN cache[key].value
        ELSE None

\* GET /jobs arrives (requests are numbered in the order they arrive)
ListBegin(r) ==
    /\ rd[r].pc = "idle"
    /\ \A q \in RdReqs : q < r => rd[q].pc # "idle"
    /\ \E u \in ListUsers :
          rd' = [rd EXCEPT ![r] =
                   [IdleRd EXCEPT !.pc = "get_cached", !.user = u, !.view = "list",
                                  !.key = list_cache_key(u), !.after = Responded]]
    /\ UNCHANGED <<now, qvars, avars, jobs, cache, mut>>

\* GET /jobs/{job_id} arrives
DetailBegin(r) ==
    /\ rd[r].pc = "idle"
    /\ \A q \in RdReqs : q < r => rd[q].pc # "idle"
    /\ \E u \in DetailUsers, j \in DetailJobs :
          rd' = [rd EXCEPT ![r] =
                   [IdleRd EXCEPT !.pc = "get_cached", !.user = u, !.view = "detail",
                                  !.job_id = j, !.key = detail_cache_key(u, j),
                                  !.after = Responded]]
    /\ UNCHANGED <<now, qvars, avars, jobs, cache, mut>>

\* the cache keys of the reads
JobKeys ==
    {list_cache_key(u) : u \in ListUsers} \cup
    {detail_cache_key(p[1], p[2]) : p \in DetailUsers \X DetailJobs}

\* what the query behind a cache key returns from the committed rows
FreshValue(key) ==
    IF \E u \in ListUsers : key = list_cache_key(u)
        THEN list_jobs(CHOOSE u \in ListUsers : key = list_cache_key(u))
        ELSE LET p == CHOOSE p \in DetailUsers \X DetailJobs :
                          key = detail_cache_key(p[1], p[2])
             IN  get_job(p[2], p[1])

\* the seconds since each of a set of instants
Elapsed(instants) == {now - t : t \in instants}

\* a lookup that takes every answer for a miss
GetCached_Bypass(r) ==
    /\ rd[r].pc = "get_cached"
    /\ rd' = [rd EXCEPT ![r].pc = "query"]
    /\ UNCHANGED <<now, qvars, avars, jobs, cache, mut>>

\* cached = await get_cached(cache_key); a hit is returned as the response.
\* Of a hit are kept: the history of the entry, for how long it has been
\* cached and for how long it has disagreed with the committed rows
GetCached(r) ==
    /\ rd[r].pc = "get_cached"
    /\ rd' = [rd EXCEPT ![r] =
                IF get_cached(rd[r].key) = None
                    THEN [rd[r] EXCEPT !.pc = "query"]
                    ELSE [RdRespond(r, 200) EXCEPT
                             !.hit = TRUE,
                             !.old = get_cached(rd[r].key).old,
                             !.late = get_cached(rd[r].key).late,
                             !.stale_for = Elapsed(get_cached(rd[r].key).since),
                             !.cached_for = now - get_cached(rd[r].key).at]]
    /\ UNCHANGED <<now, qvars, avars, jobs, cache, mut>>

\* a get_cached whose Redis fault reaches the handler: the request ends 500
GetCachedRaise_Propagates(r) ==
    /\ rd[r].pc = "get_cached"
    /\ rd' = [rd EXCEPT ![r] = RdRespond(r, 500)]
    /\ UNCHANGED <<now, qvars, avars, jobs, cache, mut>>

\* get_cached: Redis raised, the fault is swallowed and counts as a miss
\* (masked: the fault hid an entry that was there and had not expired)
GetCachedRaise(r) ==
    /\ rd[r].pc = "get_cached"
    /\ rd' = [rd EXCEPT ![r].pc = "query",
                       ![r].masked = (get_cached(rd[r].key) # None)]
    /\ UNCHANGED <<now, qvars, avars, jobs, cache, mut>>

\* await list_jobs(...) or await get_job(...): committed rows are read; a
\* missing job is a 404 and nothing is cached
ReadQuery(r) ==
    /\ rd[r].pc = "query"
    /\ rd' = [rd EXCEPT ![r] =
                IF rd[r].view = "list"
                    THEN [rd[r] EXCEPT !.pc = "set_cached",
                                       !.data = list_jobs(rd[r].user)]
                ELSE IF get_job(rd[r].job_id, rd[r].user) = NoJob
                    THEN RdRespond(r, 404)
                ELSE [rd[r] EXCEPT !.pc = "set_cached",
                                   !.data = get_job(rd[r].job_id, rd[r].user)]]
    /\ UNCHANGED <<now, qvars, avars, jobs, cache, mut>>

\* json.dumps(value) of a response the jobs router builds.  A job in it is
\* JobResponse(...).model_dump(by_alias=True), a dict of Python objects whose
\* id is a uuid.UUID and whose createdAt is a datetime: json.dumps raises
\* TypeError on it.  Only the page without a job, {'items': [], 'page': 1,
\* 'pageSize': 10, 'total': 0}, has a JSON text
JsonSerializable(view, data) == view = "list" /\ data = {}

\* a set_cached that gives the entry twice the lifetime
SetCached_TwiceTtl(r) ==
    /\ rd[r].pc = "set_cached"
    /\ cache' = IF JsonSerializable(rd[r].view, rd[r].data)
                  THEN redis_setex(cache, rd[r].key, 2 * CACHE_TTL_SECONDS,
                            [data |-> rd[r].data, old |-> rd[r].old,
                             late |-> rd[r].old, since |-> rd[r].since,
                             at |-> now])
                  ELSE cache
    /\ rd' = [rd EXCEPT ![r] = RdRespond(r, 200)]
    /\ UNCHANGED <<now, qvars, avars, jobs, mut>>

\* await set_cached(cache_key, response); return response.  set_cached
\* swallows the TypeError of json.dumps, so a response with a job in it is
\* returned and not stored.  With a stored value go its history: the
\* mutations committed since the data was read (old, late), since when it
\* disagrees with the committed rows (since), when it was stored (at)
SetCached(r) ==
    /\ rd[r].pc = "set_cached"
    /\ cache' = IF JsonSerializable(rd[r].view, rd[r].data)
                  THEN redis_setex(cache, rd[r].key, CACHE_TTL_SECONDS,
                            [data |-> rd[r].data, old |-> rd[r].old,
                             late |-> rd[r].old, since |-> rd[r].since,
                             at |-> now])
                  ELSE cache
    /\ rd' = [rd EXCEPT ![r] = RdRespond(r, 200)]
    /\ UNCHANGED <<now, qvars, avars, jobs, mut>>

\* set_cached: Redis raised, the fault is swallowed
SetCachedRaise(r) ==
    /\ rd[r].pc = "set_cached"
    /\ rd' = [rd EXCEPT ![r] = RdRespond(r, 200)]
    /\ UNCHANGED <<now, qvars, avars, jobs, cache, mut>>

\* PATCH /jobs/{job_id} with a status arrives: get_job (404 when the user
\* may not see the job), then update_job sets the field and flushes
PatchBegin(m) ==
    /\ mut[m].pc = "idle"
    /\ \A q \in MutReqs : q < m => mut[q].pc # "idle"
    /\ \E u \in MutActors, j \in PatchJobs, st \in JobStatus :
          mut' = [mut EXCEPT ![m] =
                    IF get_job(j, u) = NoJob
                        THEN [IdleMut EXCEPT !.pc = "done", !.code = 404]
                        ELSE [IdleMut EXCEPT !.pc = "commit", !.kind = "update",
                                             !.user = u, !.job_id = j,
                                             !.status = st]]
    /\ UNCHANGED <<now, qvars, avars, jobs, cache, rd>>

\* job ids no row and no open transaction has
FreshJobs ==
    Jobs \ (DOMAIN jobs \cup {mut[q].job_id : q \in MutReqs})

\* POST /jobs arrives: create_job adds the row, with a new id, and flushes
PostBegin(m) ==
    /\ mut[m].pc = "idle"
    /\ \A q \in MutReqs : q < m => mut[q].pc # "idle"
    /\ FreshJobs # {}
    /\ \E u \in MutActors, st \in PostStatus :
          mut' = [mut EXCEPT ![m] =
                    [IdleMut EXCEPT !.pc = "commit", !.kind = "create",
                                    !.user = u, !.status = st,
                                    !.job_id = CHOOSE j \in FreshJobs : TRUE]]
    /\ UNCHANGED <<now, qvars, avars, jobs, cache, rd>>

\* since when data read for a key disagrees with the rows, after a commit:
\* not at all when it agrees with them, from this commit on when it agreed
\* before, else as before
SinceAfterCommit(since, data, fresh) ==
    IF data = fresh THEN {} ELSE IF since = {} THEN {now} ELSE since

\* await session.commit(): the write is visible to every later query; what
\* was read before it is from now on older than mutation m
JobCommit(m) ==
    /\ mut[m].pc = "commit"
    /\ jobs' = IF mut[m].kind = "create"
                 THEN jobs @@ (mut[m].job_id :>
                        [employer_id |-> mut[m].user, status |-> mut[m].status])
                 ELSE [jobs EXCEPT ![mut[m].job_id].status = mut[m].status]
    /\ cache' = [k \in DOMAIN cache |->
                    [cache[k] EXCEPT
                        !.value.old = @ \cup {m},
                        !.value.since = SinceAfterCommit(@, cache[k].value.data,
                                                         FreshValue(k)')]]
    /\ LET fresh == [k \in JobKeys |-> FreshValue(k)'] IN
         rd' = [r \in RdReqs |->
                  IF rd[r].pc = "set_cached"
                      THEN [rd[r] EXCEPT
                              !.old = @ \cup {m},
                              !.since = SinceAfterCommit(@, rd[r].data,
                                                         fresh[rd[r].key])]
                      ELSE rd[r]]
    /\ mut' = [mut EXCEPT ![m].pc = "invalidate"]
    /\ UNCHANGED <<now, qvars, avars>>

\* the commit failed: 500, invalidate_jobs_cache is not reached
JobCommitRaise(m) ==
    /\ mut[m].pc = "commit"
    /\ mut' = [mut EXCEPT ![m] = [IdleMut EXCEPT !.pc = "done", !.code = 500]]
    /\ UNCHANGED <<now, qvars, avars, jobs, cache, rd>>

\* the response after invalidate_jobs_cache has returned
MutRespond(m) ==
    [IdleMut EXCEPT !.pc = "done", !.swept = mut[m].swept,
                    !.code = IF mut[m].kind = "create" THEN 201 ELSE 200]

\* a scan that matches no key of the cache
ScanKeys_NoMatch(store) == {}

\* the keys scan_iter(match='jobs:*') returns: the live keys with the prefix
ScanKeys(store) ==
    {k \in DOMAIN store : MatchesJobs(k) /\ store[k].expires > now}

\* invalidate_jobs_cache: the scan; with nothing to delete the handler returns
InvalidateScan(m) ==
    /\ mut[m].pc = "invalidate"
    /\ mut' = [mut EXCEPT ![m] =
                 IF ScanKeys(cache) = {}
                     THEN MutRespond(m)
                     ELSE [mut[m] EXCEPT !.pc = "delete", !.todo = ScanKeys(cache)]]
    /\ UNCHANGED <<now, qvars, avars, jobs, cache, rd>>

\* an invalidation that walks the scan and deletes nothing
InvalidateDelete_KeepsKey(m) ==
    /\ mut[m].pc = "delete"
    /\ \E k \in mut[m].todo :
          mut' = [mut EXCEPT ![m] =
                    IF mut[m].todo = {k}
                        THEN [MutRespond(m) EXCEPT !.swept = TRUE]
                        ELSE [mut[m] EXCEPT !.todo = @ \ {k}, !.swept = TRUE]]
    /\ UNCHANGED <<now, qvars, avars, jobs, cache, rd>>

\* await redis_client.delete(key) for the next key of the scan; after the
\* last one the handler returns
InvalidateDelete(m) ==
    /\ mut[m].pc = "delete"
    /\ \E k \in mut[m].todo :
          /\ cache' = [q \in DOMAIN cache \ {k} |-> cache[q]]
          /\ mut' = [mut EXCEPT ![m] =
                       IF mut[m].todo = {k}
                           THEN [MutRespond(m) EXCEPT !.swept = TRUE]
                           ELSE [mut[m] EXCEPT !.todo = @ \ {k}, !.swept = TRUE]]
    /\ UNCHANGED <<now, qvars, avars, jobs, rd>>

\* invalidate_jobs_cache: Redis raised in the scan or in a delete; the fault
\* is swallowed and the handler returns its response
InvalidateRaise(m) ==
    /\ mut[m].pc \in {"invalidate", "delete"}
    /\ mut' = [mut EXCEPT ![m] = [MutRespond(m) EXCEPT !.fault = TRUE]]
    /\ UNCHANGED <<now, qvars, avars, jobs, cache, rd>>

\* time passes while jobs are read, and Redis drops the keys whose lifetime
\* has ended; MaxSeconds ends the behaviour
TickSeconds ==
    /\ now + SecondsPerTick <= MaxSeconds
    /\ now' = now + SecondsPerTick
    /\ cache' = [k \in {q \in DOMAIN cache : cache[q].expires > now'} |-> cache[k]]
    /\ UNCHANGED <<qvars, avars, jobs, rd, mut>>

\* time passes in shorter steps, and Redis drops the keys whose lifetime has
\* ended; TtlMaxSeconds ends the behaviour
TickTtl ==
    /\ now + TtlSecondsPerTick <= TtlMaxSeconds
    /\ now' = now + TtlSecondsPerTick
    /\ cache' = [k \in {q \in DOMAIN cache : cache[q].expires > now'} |-> cache[k]]
    /\ UNCHANGED <<qvars, avars, jobs, rd, mut>>

AInit ==
    /\ now = 0
    /\ applications = <<>>
    /\ status_history = <<>>
    /\ audit_logs = <<>>
    /\ idem = <<>>
    /\ nextApp = 0
    /\ sub = [r \in SubReqs |-> IdleSub]
    /\ upd = [r \in UpdReqs |-> IdleUpd]

\* an empty cache, no job request in flight
CInit ==
    /\ cache = <<>>
    /\ rd = [r \in RdReqs |-> IdleRd]
    /\ mut = [m \in MutReqs |-> IdleMut]

\* two jobs posted by two employers, both active
JInit ==
    /\ jobs = [j \in Jobs |-> [employer_id |-> JobOwner[j], status |-> "active"]]
    /\ CInit

QInit ==
    /\ queue = <<>>
    /\ dlq = <<>>
    /\ wpc = [w \in Workers |-> "dequeue"]
    /\ wtask = [w \in Workers |-> NoTask]
    /\ wret = [w \in Workers |-> "none"]
    /\ wdelay = [w \in Workers |-> 0]
    /\ wwake = [w \in Workers |-> 0]
    /\ nextId = 0
    /\ enqueued = {}
    /\ returned = <<>>
    /\ commits = [t \in TaskIds |-> 0]
    /\ failures = [t \in TaskIds |-> <<>>]

Init == QInit /\ AInit /\ JInit

\* one worker process is started, the other is not
QInitOneWorker ==
    /\ queue = <<>>
    /\ dlq = <<>>
    /\ wpc = [w \in Workers |-> IF w = "w1" THEN "dequeue" ELSE "stopped"]
    /\ wtask = [w \in Workers |-> NoTask]
    /\ wret = [w \in Workers |-> "none"]
    /\ wdelay = [w \in Workers |-> 0]
    /\ wwake = [w \in Workers |-> 0]
    /\ nextId = 0
    /\ enqueued = {}
    /\ returned = <<>>
    /\ commits = [t \in TaskIds |-> 0]
    /\ failures = [t \in TaskIds |-> <<>>]

InitOneWorker == QInitOneWorker /\ AInit /\ JInit

\* the store when employer e1 has posted one job and nothing is cached
InitJobs ==
    /\ QInit
    /\ AInit
    /\ CInit
    /\ \E st \in JobStatus :
          jobs = ("j1" :> [employer_id |-> "e1", status |-> st])

\* the store when employers e1 and e2 have posted one job each and nothing is
\* cached
InitTenants ==
    /\ QInit
    /\ AInit
    /\ CInit
    /\ \E st1, st2 \in JobStatus :
          jobs = ("j1" :> [employer_id |-> "e1", status |-> st1]) @@
                 ("j2" :> [employer_id |-> "e2", status |-> st2])

\* two GET /jobs requests of applicant u1 with any parameters, on a store
\* with two active jobs
InitParams ==
    /\ QInit
    /\ AInit
    /\ cache = <<>>
    /\ mut = [m \in MutReqs |-> IdleMut]
    /\ jobs = ListedRows
    /\ rd \in [RdReqs -> {ParamRd("u1", q, l, c, p, ps) :
                              q \in QueryParams, l \in LocationParams,
                              c \in CompanyParams, p \in PageParams,
                              ps \in PageSizeParams}]

\* the status sequences update_application_status lets one application go
\* through, from its submission on
StatusPaths ==
    {<<"applied">>, <<"applied", "rejected">>, <<"applied", "reviewed">>,
     <<"applied", "reviewed", "rejected">>, <<"applied", "reviewed", "interview">>,
     <<"applied", "reviewed", "interview", "rejected">>,
     <<"applied", "reviewed", "interview", "accepted">>}

\* the store after applicant u1 has applied for a job with token t1 and the
\* owner of the job has moved the application along one of the paths
InitStatus ==
    /\ QInit
    /\ JInit
    /\ now = 0
    /\ nextApp = 1
    /\ sub = [r \in SubReqs |-> IdleSub]
    /\ upd = [r \in UpdReqs |-> IdleUpd]
    /\ idem = (idem_key("u1", "t1") :> [value |-> 1, expires |-> IdemTtlSeconds])
    /\ \E j \in Jobs, path \in StatusPaths :
          /\ applications = (1 :> [job_id |-> j, applicant_id |-> "u1",
                                   status |-> path[Len(path)]])
          /\ status_history =
                [i \in 1..Len(path) |->
                    [application_id |-> 1, status |-> path[i],
                     changed_by |-> IF i = 1 THEN "u1" ELSE JobOwner[j]]]
          /\ audit_logs =
                [i \in 1..Len(path) |->
                    [actor_id |-> IF i = 1 THEN "u1" ELSE JobOwner[j],
                     action |-> IF i = 1 THEN "application.created"
                                         ELSE "application.status_changed",
                     entity_id |-> 1]]

\* the producers and the workers, every queue operation succeeding
QNext ==
    \/ \E t \in TaskTypes, p \in Payloads : enqueue(t, p)
    \/ \E w \in Workers : Dequeue(w)
    \/ \E w \in Workers : DequeueTimeout(w)
    \/ \E w \in Workers : ProcessTaskOk(w)
    \/ \E w \in Workers : ProcessTaskUnknown(w)
    \/ \E w \in Workers : ProcessTaskRaise(w)
    \/ \E w \in Workers : Sleep(w)
    \/ \E w \in Workers : Requeue(w)
    \/ \E w \in Workers : PushDlq(w)

\* the same with Redis faults and worker processes that stop
QFaultNext ==
    \/ QNext
    \/ \E w \in Workers : RedisRaise(w)
    \/ \E w \in Workers : RedisRaiseAfter(w)
    \/ \E w \in Workers : Stop(w)
    \/ \E w \in Workers : Restart(w)

\* the queue and its workers when Redis calls can raise after the server has
\* carried them out
QReplyLostNext ==
    \/ QNext
    \/ \E w \in Workers : RedisRaiseAfter(w)

\* producers that pass any payload, and workers whose handlers succeed
RoundTripNext ==
    \/ \E t \in TaskTypes \cap TASK_HANDLERS, p \in Payloads \cup OddPayloads :
          enqueue(t, p)
    \/ \E w \in Workers : Dequeue(w)
    \/ \E w \in Workers : DequeueTimeout(w)
    \/ \E w \in Workers : ProcessTaskOk(w)

vars == <<now, qvars, avars, jvars>>

\* one step of the loop of worker w: run() keeps calling process_once, and
\* every await in it returns
WorkerStep(w) ==
    \/ Dequeue(w)
    \/ DequeueTimeout(w)
    \/ ProcessTaskOk(w)
    \/ ProcessTaskUnknown(w)
    \/ ProcessTaskRaise(w)
    \/ Sleep(w)
    \/ Requeue(w)
    \/ PushDlq(w)

\* the producers and the workers, with fewer tasks
LiveNext ==
    \/ \E t \in TaskTypes, p \in Payloads : nextId < MaxLiveTasks /\ enqueue(t, p)
    \/ \E w \in Workers : WorkerStep(w)

\* the producers and the workers, with the clock: a sleep ends only when its
\* delay has passed
BackoffNext ==
    \/ \E t \in TaskTypes, p \in Payloads : nextId < MaxLiveTasks /\ enqueue(t, p)
    \/ \E w \in Workers : Dequeue(w)
    \/ \E w \in Workers : DequeueTimeout(w)
    \/ \E w \in Workers : ProcessTaskOk(w)
    \/ \E w \in Workers : ProcessTaskUnknown(w)
    \/ \E w \in Workers : ProcessTaskRaise(w)
    \/ \E w \in Workers : SleepElapsed(w)
    \/ \E w \in Workers : Requeue(w)
    \/ \E w \in Workers : PushDlq(w)
    \/ TickBackoff

\* the producers and the workers, with the handler and the commit of
\* process_task as steps of their own
TxnNext ==
    \/ \E t \in TaskTypes, p \in Payloads : enqueue(t, p)
    \/ \E w \in Workers : Dequeue(w)
    \/ \E w \in Workers : DequeueTimeout(w)
    \/ \E w \in Workers : HandlerFlush(w)
    \/ \E w \in Workers : HandlerRaise(w)
    \/ \E w \in Workers : SessionCommit(w)
    \/ \E w \in Workers : SessionCommitRaise(w)
    \/ \E w \in Workers : ProcessTaskUnknown(w)
    \/ \E w \in Workers : Sleep(w)
    \/ \E w \in Workers : Requeue(w)
    \/ \E w \in Workers : PushDlq(w)

\* the producers and the workers, with handlers and commits that succeed
OneWorkerNext ==
    \/ \E t \in TaskTypes \cap TASK_HANDLERS, p \in Payloads \cup OddPayloads :
          enqueue(t, p)
    \/ \E w \in Workers : Dequeue(w)
    \/ \E w \in Workers : DequeueTimeout(w)
    \/ \E w \in Workers : HandlerFlush(w)
    \/ \E w \in Workers : SessionCommit(w)

\* submissions, with the store and Redis faults a request can meet
SubmitNext ==
    \/ \E r \in SubReqs : SubmitBegin(r)
    \/ \E r \in SubReqs : IdemGet(r)
    \/ \E r \in SubReqs : IdemGetRaise(r)
    \/ \E r \in SubReqs : GetExisting(r)
    \/ \E r \in SubReqs : GetJob(r)
    \/ \E r \in SubReqs : SelectExisting(r)
    \/ \E r \in SubReqs : Flush(r)
    \/ \E r \in SubReqs : Setex(r)
    \/ \E r \in SubReqs : SetexRaise(r)
    \/ \E r \in SubReqs : Commit(r)
    \/ \E r \in SubReqs : CommitRaise(r)
    \/ \E j \in PatchJobs : UpdateJobStatus(j, "archived")
    \/ TickHours

\* the requests that run side by side: two submissions, two status updates
LifecycleSubs == {1, 2}

LifecycleUpds == {1, 2}

\* submissions and status updates of the same store side by side; an update's
\* commit succeeds or fails
LifecycleNext ==
    \/ \E r \in LifecycleSubs : SubmitBegin(r)
    \/ \E r \in LifecycleSubs : IdemGet(r)
    \/ \E r \in LifecycleSubs : GetExisting(r)
    \/ \E r \in LifecycleSubs : GetJob(r)
    \/ \E r \in LifecycleSubs : SelectExisting(r)
    \/ \E r \in LifecycleSubs : Flush(r)
    \/ \E r \in LifecycleSubs : Setex(r)
    \/ \E r \in LifecycleSubs : Commit(r)
    \/ \E r \in LifecycleUpds : UpdateBegin(r)
    \/ \E r \in LifecycleUpds : UpdateGet(r)
    \/ \E r \in LifecycleUpds : UpdateStatus(r)
    \/ \E r \in LifecycleUpds : UpdateCommit(r)
    \/ \E r \in LifecycleUpds : UpdateCommitRaise(r)

\* the status updates of the applications in the store
StatusNext ==
    \/ \E r \in UpdReqs : UpdateBegin(r)
    \/ \E r \in UpdReqs : UpdateGet(r)
    \/ \E r \in UpdReqs : UpdateStatus(r)
    \/ \E r \in UpdReqs : UpdateCommit(r)
    \/ \E r \in UpdReqs : UpdateCommitRaise(r)

\* job reads and job mutations, the clock
JobsNext ==
    \/ \E r \in RdReqs :
          \/ ListBegin(r)
          \/ DetailBegin(r)
          \/ GetCached(r)
          \/ GetCachedRaise(r)
          \/ ReadQuery(r)
          \/ SetCached(r)
          \/ SetCachedRaise(r)
    \/ \E m \in MutReqs :
          \/ PatchBegin(m)
          \/ PostBegin(m)
          \/ JobCommit(m)
          \/ JobCommitRaise(m)
          \/ InvalidateScan(m)
          \/ InvalidateDelete(m)
          \/ InvalidateRaise(m)
    \/ TickSeconds

\* job reads and job patches with every call succeeding, on the finer clock
TtlNext ==
    \/ \E r \in RdReqs :
          \/ ListBegin(r)
          \/ DetailBegin(r)
          \/ GetCached(r)
          \/ ReadQuery(r)
          \/ SetCached(r)
    \/ \E m \in MutReqs :
          \/ PatchBegin(m)
          \/ JobCommit(m)
          \/ InvalidateScan(m)
          \/ InvalidateDelete(m)
    \/ TickTtl

Next == QFaultNext \/ SubmitNext \/ StatusNext \/ JobsNext \/ TtlNext

Spec == Init /\ [][Next]_vars

SpecQueue == Init /\ [][QNext]_vars

SpecSubmit == Init /\ [][SubmitNext]_vars

SpecStatus == InitStatus /\ [][StatusNext]_vars

SpecLifecycle == Init /\ [][LifecycleNext]_vars

\* the key and the query of each request
ParamsNext ==
    \/ \E r \in RdReqs : ListKey(r)
    \/ \E r \in RdReqs : ListQuery(r)

SpecParams == InitParams /\ [][ParamsNext]_vars

SpecJobs == InitJobs /\ [][JobsNext]_vars

SpecTtl == InitJobs /\ [][TtlNext]_vars

SpecQueueFaults == Init /\ [][QFaultNext]_vars

SpecQueueReplyLost == Init /\ [][QReplyLostNext]_vars

SpecRoundTrip == Init /\ [][RoundTripNext]_vars

\* the queue with workers that keep running
SpecQueueFair ==
    Init /\ [][LiveNext]_vars /\ \A w \in Workers : WF_vars(WorkerStep(w))

SpecBackoff == Init /\ [][BackoffNext]_vars

\* a single worker whose handlers succeed
SpecOneWorker == InitOneWorker /\ [][OneWorkerNext]_vars

SpecTxn == Init /\ [][TxnNext]_vars

SpecTenants == InitTenants /\ [][TtlNext]_vars

(***************************************************************************)
(* Where a task is.                                                        *)
(***************************************************************************)
Occurrences(list, t) == Cardinality({i \in 1..Len(list) : list[i].id = t})

InQueue(t) == Occurrences(queue, t) > 0

InDlq(t) == Occurrences(dlq, t) > 0

\* held in memory by a worker process that is running
InFlight(t) ==
    \E w \in Workers : wtask[w].id = t /\ wpc[w] \notin {"raised", "stopped"}

Succeeded(t) == commits[t] > 0

\* the handler of t has failed on MAX_RETRIES attempts and the process_once
\* call of the last one is over
Exhausted(t) ==
    /\ t \in enqueued
    /\ Len(failures[t]) = MAX_RETRIES
    /\ \A w \in Workers : wtask[w].id # t

DlqEntries(t) == {i \in 1..Len(dlq) : dlq[i].id = t}

(***************************************************************************)
(* C1. At-least-once delivery: every task enqueue returned is, until its   *)
(* handler has succeeded, in the main queue, held by a running worker or   *)
(* in the dead-letter list, also when a worker process stops or a Redis    *)
(* call fails between the dequeue and the requeue or dead-letter push.     *)
(* Stated as the claim has it; SpecQueueFaults refutes it.                 *)
(***************************************************************************)
C1_NeverDropped ==
    \A t \in enqueued : ~Succeeded(t) => (InQueue(t) \/ InFlight(t) \/ InDlq(t))

Created == {r \in SubReqs : sub[r].pc = "done" /\ sub[r].created}

C3_TaskPerSubmission ==
    /\ Len(queue) = Cardinality(Created)
    /\ \A i \in 1..Len(queue) : queue[i].type = "application.submitted"

(***************************************************************************)
(* The transition table as the specification gives it.                     *)
(***************************************************************************)
TableNext(current) ==
    CASE current = "applied" -> {"reviewed", "rejected"}
      [] current = "reviewed" -> {"interview", "rejected"}
      [] current = "interview" -> {"accepted", "rejected"}
      [] current = "accepted" -> {}
      [] current = "rejected" -> {}

(***************************************************************************)
(* C4. Every change of an application's committed status is a step of the  *)
(* transition table, so accepted and rejected never change again, under    *)
(* any interleaving of status updates.  Stated as the claim has it.        *)
(***************************************************************************)
C4_CommittedStatusFollowsTable ==
    [][\A a \in DOMAIN applications :
          /\ a \in DOMAIN applications'
          /\ applications'[a].status # applications[a].status =>
                applications'[a].status \in TableNext(applications[a].status)]_vars

(***************************************************************************)
(* C5. update_application_status succeeds exactly when the requested       *)
(* status is in the table's set for the status of the application it is    *)
(* given; otherwise (also for requested = current) it fails with           *)
(* invalid_transition, the response is 409, and the step changes neither   *)
(* the application's status nor the history.                               *)
(***************************************************************************)
C5_SucceedsExactlyWhenAllowed ==
    /\ [](\A r \in UpdReqs :
            upd[r].result # "" =>
              /\ upd[r].result = "ok" <=>
                    upd[r].new_status \in TableNext(upd[r].cur)
              /\ upd[r].result = "invalid_transition" =>
                    upd[r].pc = "done" /\ upd[r].code = 409)
    /\ [][\A r \in UpdReqs :
            (upd[r].result = "" /\ upd'[r].result = "invalid_transition") =>
                UNCHANGED <<applications, status_history>>]_vars

\* one request asked for the status the application had and got 409, another
\* made an allowed transition from a later status
C5_Witness ==
    \E r, q \in UpdReqs :
        /\ upd[r].result = "invalid_transition"
        /\ upd[r].new_status = upd[r].cur
        /\ upd[r].code = 409
        /\ upd[q].code = 200
        /\ upd[q].cur = "interview"

(***************************************************************************)
(* C10. A read that arrived after a job mutation had returned its response *)
(* is answered from a cache entry computed before that mutation's commit   *)
(* only if the entry was stored after the commit, by a read that had       *)
(* queried before it, or if the mutation's invalidation raised.            *)
(***************************************************************************)
C10_StaleOnlyByOverlapOrFault ==
    \A r \in RdReqs :
        (rd[r].pc = "done" /\ rd[r].hit) =>
            \A m \in rd[r].old \cap rd[r].after :
                m \in rd[r].late \/ mut[m].fault

\* C10 as the claim has it: such a read is never answered from an entry
\* computed before the commit, whatever reads ran beside the mutation
C10_Original ==
    \A r \in RdReqs :
        (rd[r].pc = "done" /\ rd[r].hit) => rd[r].old \cap rd[r].after = {}

\* a read that arrived after a mutation had responded was answered from the
\* cache, by an entry computed after the commit
C10_Witness ==
    \E r \in RdReqs :
        /\ rd[r].pc = "done"
        /\ rd[r].hit
        /\ rd[r].after # {}
        /\ rd[r].old = {}

(***************************************************************************)
(* C11. When a job create or update request has completed and its          *)
(* invalidation met no cache fault, no live jobs:* key holds an entry that *)
(* was stored before the mutation's commit: every such entry was deleted.  *)
(* The keys that exist were stored after the commit.                       *)
(***************************************************************************)
C11_EntriesBeforeCommitDeleted ==
    \A m \in Responded :
        ~mut[m].fault =>
            \A k \in ScanKeys(cache) :
                m \in cache[k].value.old => m \in cache[k].value.late

\* C11 as the claim has it: at the step that completes a job create or
\* update request no key matching jobs:* exists
C11_Original ==
    [][\A m \in MutReqs :
          (mut[m].pc # "done" /\ mut'[m].pc = "done" /\ mut'[m].code \in {200, 201})
              => ScanKeys(cache)' = {}]_vars

\* a mutation has deleted the keys its scan returned and completed, and no
\* key is left
C11_Witness ==
    \E m \in Responded :
        /\ mut[m].swept
        /\ ~mut[m].fault
        /\ ScanKeys(cache) = {}

(***************************************************************************)
(* C12. A cache entry is never served 60 seconds or more after it was      *)
(* stored, and an entry that has disagreed with the committed rows for 60  *)
(* seconds or more is served only if it was stored after the commit that   *)
(* made it stale, by a read that had queried before that commit.           *)
(***************************************************************************)
C12_ServedWithinLifetimeOfStoring ==
    \A r \in RdReqs :
        (rd[r].pc = "done" /\ rd[r].hit) =>
            /\ rd[r].cached_for < CACHE_TTL_SECONDS
            /\ \A d \in rd[r].stale_for :
                  d >= CACHE_TTL_SECONDS => rd[r].late # {}

\* C12 as the claim has it: an entry that disagrees with the committed rows
\* is never served more than 60 seconds after the commit that made it stale
C12_Original ==
    \A r \in RdReqs :
        (rd[r].pc = "done" /\ rd[r].hit) =>
            \A d \in rd[r].stale_for : d <= CACHE_TTL_SECONDS

\* a read was answered from an entry stored before a commit that made it
\* stale, some time after that commit and before the invalidation reached it
C12_Witness ==
    \E r \in RdReqs :
        /\ rd[r].pc = "done"
        /\ rd[r].hit
        /\ rd[r].late = {}
        /\ \E d \in rd[r].stale_for : d > 0 /\ d < CACHE_TTL_SECONDS

(***************************************************************************)
(* C13. A job list or job detail response served to an employer, from the  *)
(* cache or from the database, contains no job owned by another employer;  *)
(* the cache keys of two users are equal only if the users have the same   *)
(* role and, when they are employers, are the same user.                   *)
(***************************************************************************)
\* the employers that own the jobs of a response body
OwnersIn(view, data) ==
    IF view = "list" THEN {x.employer_id : x \in data} ELSE {data.employer_id}

\* the users share what is cached for them
SameScope(u, v) ==
    /\ UserRole[u] = UserRole[v]
    /\ UserRole[u] = "employer" => u = v

KeysScoped ==
    \A u, v \in DOMAIN UserRole, i, j \in Jobs :
        /\ list_cache_key(u) = list_cache_key(v) => SameScope(u, v)
        /\ detail_cache_key(u, i) = detail_cache_key(v, j) => SameScope(u, v)
        /\ list_cache_key(u) # detail_cache_key(v, j)

\* the body of the 200 response that request r sends in this step
Served(r) ==
    IF rd'[r].hit THEN get_cached(rd[r].key).data ELSE rd[r].data

ServedOwnJobs ==
    \A r \in RdReqs :
        (/\ rd[r].pc # "done"
         /\ rd'[r].pc = "done"
         /\ rd'[r].code = 200
         /\ UserRole[rd[r].user] = "employer")
            => OwnersIn(rd[r].view, Served(r)) \subseteq {rd[r].user}

C13_EmployerServedOwnJobsOnly == []KeysScoped /\ [][ServedOwnJobs]_vars

\* employer e1 holds the list the database gave it, which is its own job
\* only, while employer e2 has a job too and holds its own list
C13_Witness ==
    \E r, q \in RdReqs :
        /\ rd[r].pc = "set_cached"
        /\ rd[r].user = "e1"
        /\ rd[r].view = "list"
        /\ OwnersIn("list", rd[r].data) = {"e1"}
        /\ rd[q].pc = "set_cached"
        /\ rd[q].user = "e2"
        /\ OwnersIn(rd[q].view, rd[q].data) = {"e2"}

(***************************************************************************)
(* C14. In every reachable state, with producers enqueueing and several    *)
(* workers consuming, each task id occurs at most once across the main     *)
(* queue, the tasks held by the workers and the dead-letter list together. *)
(***************************************************************************)
\* the workers that hold task t in memory
Holders(t) == {w \in Workers : wtask[w].id = t}

C14_TaskIdAtMostOnce ==
    \A t \in TaskIds :
        Occurrences(queue, t) + Cardinality(Holders(t)) + Occurrences(dlq, t) <= 1

\* one task is dead-lettered while another, requeued before, is held by a
\* worker
C14_Witness ==
    \E t, u \in TaskIds :
        /\ t # u
        /\ InDlq(t)
        /\ \E w \in Holders(u) : wtask[w].attempts > 0

(***************************************************************************)
(* C15. With one task, enqueued at attempts 0 into empty lists, whose      *)
(* handler raises every time: when the first process_once that took it has *)
(* returned, the task is in the main queue exactly once with attempts = 1  *)
(* and the dead-letter list is empty; when the third has returned, the     *)
(* dead-letter list has depth 1 and the main queue depth 0.                *)
(***************************************************************************)
\* t is the only task, its handler has raised k times and never succeeded,
\* and the process_once call of the k-th failure is over
OnlyTaskFailed(t, k) ==
    /\ enqueued = {t}
    /\ commits[t] = 0
    /\ Len(failures[t]) = k
    /\ Holders(t) = {}

C15_RetryThenDeadLetter ==
    \A t \in TaskIds :
        /\ OnlyTaskFailed(t, 1) =>
              /\ Len(queue) = 1
              /\ queue[1].id = t
              /\ queue[1].attempts = 1
              /\ dlq = <<>>
        /\ OnlyTaskFailed(t, MAX_RETRIES) =>
              /\ Len(dlq) = 1
              /\ Len(queue) = 0

\* the only task is back in the main queue after its first failure, and
\* both workers have returned from process_once
C15_Witness ==
    \E t \in TaskIds :
        /\ OnlyTaskFailed(t, 1)
        /\ InQueue(t)
        /\ \A w \in Workers : wret[w] = "false"

(***************************************************************************)
(* C16. A task whose handler has failed k < 3 times and then succeeded is, *)
(* once the successful process_once has returned, neither in the main      *)
(* queue nor in the dead-letter list (and no worker holds it).             *)
(***************************************************************************)
C16_SucceededTaskGone ==
    \A t \in TaskIds :
        (Succeeded(t) /\ Len(failures[t]) < MAX_RETRIES) =>
            /\ ~InQueue(t)
            /\ ~InDlq(t)
            /\ Holders(t) = {}

\* a handler succeeded on the third attempt, after two failures
C16_Witness ==
    \E t \in TaskIds :
        /\ Succeeded(t)
        /\ Len(failures[t]) = MAX_RETRIES - 1
        /\ \E w \in Workers : wret[w] = "true"

(***************************************************************************)
(* C17. A status transition that succeeds appends exactly one history      *)
(* record, carrying the new status and the id of the acting user; a        *)
(* transition that fails (404, 403, 409, failed commit) appends none; no   *)
(* step changes or removes a record the history already has.               *)
(***************************************************************************)
\* the history row update_application_status adds for request r
HistoryRecord(r) ==
    [application_id |-> upd[r].app, status |-> upd[r].new_status,
     changed_by |-> upd[r].actor]

\* the status update requests that send their response in this step
Answering == {r \in UpdReqs : upd[r].pc # "done" /\ upd'[r].pc = "done"}

HistoryStep ==
    /\ Len(status_history') >= Len(status_history)
    /\ SubSeq(status_history', 1, Len(status_history)) = status_history
    /\ \A r \in Answering :
          IF upd'[r].code = 200
              THEN status_history' = Append(status_history, HistoryRecord(r))
              ELSE status_history' = status_history
    /\ Answering = {} => status_history' = status_history

C17_HistoryAppendOnly == [][HistoryStep]_vars

\* the admin made a transition, which is the last record of the history,
\* after another request had been refused with 409
C17_Witness ==
    \E r, q \in UpdReqs :
        /\ upd[r].pc = "done" /\ upd[r].code = 200 /\ upd[r].actor = "adm"
        /\ status_history[Len(status_history)] = HistoryRecord(r)
        /\ upd[q].pc = "done" /\ upd[q].code = 409
        /\ Len(status_history) = 2

(***************************************************************************)
(* C18. With several workers consuming the main queue, each queued         *)
(* occurrence of a task is handed to one worker: no two workers hold the   *)
(* same task at the same time, and the handler has run exactly once for    *)
(* each earlier occurrence of a task (as many runs as the attempts counted *)
(* in its current occurrence), never again after a success.                *)
(***************************************************************************)
\* the handler invocations for task t that have ended
HandlerRuns(t) == commits[t] + Len(failures[t])

\* the attempts fields of the occurrences of t in a list
AttemptsIn(list, t) == {list[i].attempts : i \in {j \in 1..Len(list) : list[j].id = t}}

C18_OneWorkerPerOccurrence ==
    \A t \in TaskIds :
        /\ Cardinality(Holders(t)) <= 1
        /\ commits[t] <= 1
        /\ \A a \in AttemptsIn(queue, t) \cup AttemptsIn(dlq, t) : HandlerRuns(t) = a
        /\ \A w \in Holders(t) : HandlerRuns(t) = wtask[w].attempts

\* both workers are in a handler, each with its own task, one of the tasks
\* on its second attempt
C18_Witness ==
    \E w, v \in Workers :
        /\ w # v
        /\ wpc[w] = "process_task" /\ wpc[v] = "process_task"
        /\ wtask[w].id # wtask[v].id
        /\ wtask[w].attempts = 1

(***************************************************************************)
(* C19. A cache fault never propagates: a get_cached that meets one        *)
(* returns None (the read goes on to the query, as after a miss), a        *)
(* set_cached or invalidate_jobs_cache that meets one returns normally     *)
(* (the request sends its 200 or 201), no read ends with an error of the   *)
(* cache, and no step of the three functions changes the committed jobs.   *)
(***************************************************************************)
\* the step of read r out of get_cached or set_cached
ReadCacheStep(r) ==
    /\ rd[r].pc \in {"get_cached", "set_cached"}
    /\ rd'[r].pc # rd[r].pc

\* the step of mutation m inside invalidate_jobs_cache
InvalidateStep(m) ==
    /\ mut[m].pc \in {"invalidate", "delete"}
    /\ mut'[m] # mut[m]

CacheStepsFailOpen ==
    /\ \A r \in RdReqs : ReadCacheStep(r) =>
          /\ jobs' = jobs
          /\ IF rd[r].pc = "get_cached"
                THEN \/ rd'[r].pc = "query"
                     \/ rd'[r].pc = "done" /\ rd'[r].code = 200 /\ rd'[r].hit
                ELSE rd'[r].pc = "done" /\ rd'[r].code = 200
    /\ \A m \in MutReqs : InvalidateStep(m) =>
          /\ jobs' = jobs
          /\ \/ mut'[m].pc = "delete"
             \/ mut'[m].pc = "done" /\ mut'[m].code \in {200, 201}
          /\ mut'[m].fault => (mut'[m].pc = "done" /\ cache' = cache)

C19_CacheFaultsNeverPropagate ==
    /\ [](\A r \in RdReqs : rd[r].pc = "done" => rd[r].code \in {200, 404})
    /\ [][CacheStepsFailOpen]_vars

\* a mutation has answered although its invalidation met a fault, the entry
\* stored before its commit is still there, and a read that arrived after
\* the answer is at its query although the entry is there: its get_cached
\* met a fault too
C19_Witness ==
    \E r \in RdReqs, m \in Responded :
        /\ mut[m].fault
        /\ rd[r].pc = "query"
        /\ m \in rd[r].after
        /\ get_cached(rd[r].key) # None
        /\ m \in get_cached(rd[r].key).old \ get_cached(rd[r].key).late

(***************************************************************************)
(* C20. set_cached(k, v) followed immediately by get_cached(k) returns v;  *)
(* once 60 seconds have passed since that set with no further set of k,    *)
(* get_cached(k) returns None.  Stated as the claim has it, for the values *)
(* the jobs router passes to set_cached; SpecTtl refutes the first half.   *)
(***************************************************************************)
\* read r returns from set_cached(key, data) in this step, and a get_cached
\* of the key in the state it leaves returns data
SetThenGet ==
    \A r \in RdReqs :
        (rd[r].pc = "set_cached" /\ rd'[r].pc = "done") =>
            /\ rd[r].key \in DOMAIN cache'
            /\ cache'[rd[r].key].expires > now'
            /\ cache'[rd[r].key].value.data = rd[r].data

C20_SetThenGetReturnsValue ==
    /\ [][SetThenGet]_vars
    /\ [](\A k \in DOMAIN cache :
             now - cache[k].value.at >= CACHE_TTL_SECONDS => get_cached(k) = None)

(***************************************************************************)
(* C21. A task enqueued and then dequeued with no failure in between has   *)
(* the id enqueue returned, the type given to enqueue and attempts = 0,    *)
(* and, when the payload given is a dict of strings (what json.loads gives *)
(* back as it was), the payload given; enqueue makes the main queue one    *)
(* longer and leaves the dead-letter list as it was.                       *)
(***************************************************************************)
\* the tasks the workers hold
Held == {wtask[w] : w \in {v \in Workers : wtask[v] # NoTask}}

\* the task dict enqueue returned for the id of task
ReturnedFor(task) == returned[task.id]

EnqueueStep ==
    Len(returned') = Len(returned) + 1 =>
        /\ Len(queue') = Len(queue) + 1
        /\ dlq' = dlq
        /\ returned'[Len(returned')].attempts = 0

LoopEnds == {w \in Workers : wpc[w] # "raised" /\ wpc'[w] = "raised"}

C22_LoopEndsOnlyOnDlqFailure ==
    [][\A w \in LoopEnds : wpc[w] = "push_dlq"]_vars

(***************************************************************************)
(* C23. While the queue operations succeed, no exception of a handler      *)
(* leaves process_once: the worker goes from the failed handler to the     *)
(* backoff sleep or to the dead-letter push, process_once then returns     *)
(* False, and run() goes on to its next dequeue.                           *)
(***************************************************************************)
\* the handler of the task worker w holds fails in this step
HandlerFails(w) ==
    /\ wpc[w] = "process_task"
    /\ Len(failures'[wtask[w].id]) = Len(failures[wtask[w].id]) + 1

\* process_once of worker w returns in this step after a failed attempt
ReturnsAfterFailure(w) ==
    /\ wpc[w] \in {"requeue", "push_dlq"}
    /\ wpc'[w] # wpc[w]

HandlerFailureContained ==
    \A w \in Workers :
        /\ HandlerFails(w) =>
              /\ wpc'[w] \in {"sleep", "push_dlq"}
              /\ queue' = queue /\ dlq' = dlq
        /\ ReturnsAfterFailure(w) =>
              /\ wpc'[w] = "dequeue"
              /\ wret'[w] = "false"
              /\ Len(queue') + Len(dlq') = Len(queue) + Len(dlq) + 1

C23_HandlerExceptionNeverPropagates ==
    /\ [](\A w \in Workers : wpc[w] # "raised" /\ wret[w] # "raised")
    /\ [][HandlerFailureContained]_vars

\* a worker is back at its dequeue, its process_once having returned False,
\* and the task it requeued after the second failure is at the head
C23_Witness ==
    \E w \in Workers :
        /\ wpc[w] = "dequeue"
        /\ wret[w] = "false"
        /\ queue # <<>>
        /\ Head(queue).attempts = 2
        /\ Head(queue).error = <<"fail">>

(***************************************************************************)
(* C24. With workers that keep running and queue operations that succeed,  *)
(* every task enqueued is eventually processed successfully or in the      *)
(* dead-letter list, whatever its handler does on each attempt.            *)
(***************************************************************************)
C24_EveryTaskEnds ==
    \A t \in TaskIds : (t \in enqueued) ~> (Succeeded(t) \/ InDlq(t))

\* a task has ended in the dead-letter list after three failures, nothing
\* is left to do and both workers have returned from a process_once
C24_Witness ==
    \E t \in TaskIds :
        /\ InDlq(t)
        /\ Len(failures[t]) = MAX_RETRIES
        /\ queue = <<>>
        /\ Held = {}
        /\ \A w \in Workers : wret[w] = "false"

(***************************************************************************)
(* C6. After a submission with token t has completed and created A, every  *)
(* later submission of the applicant with t within 24 hours returns A and  *)
(* creates nothing: from the completion on and for 24 hours from the       *)
(* request's arrival, the idempotency lookup of (applicant, t) yields A    *)
(* and A is in the store, which is what makes a later apply_for_job return *)
(* A before it writes anything.  Stated as the claim has it.               *)
(***************************************************************************)
C6_LaterSubmissionSameId ==
    \A r \in Created :
        now < sub[r].at + IdemTtlSeconds =>
            /\ redis_get(idem, idem_key(sub[r].user, sub[r].token)) = sub[r].id
            /\ sub[r].id \in DOMAIN applications

(***************************************************************************)
(* C7. There is at most one committed application per (job, applicant),    *)
(* and a submission for a pair that already has one, whose idempotency     *)
(* lookup finds no record, creates nothing and fails: with                 *)
(* application_exists (409) when it finds the job active, with             *)
(* job_not_active (404) when it does not.                                  *)
(***************************************************************************)
UniquePerPair ==
    \A a, b \in DOMAIN applications :
        (/\ applications[a].job_id = applications[b].job_id
         /\ applications[a].applicant_id = applications[b].applicant_id) => a = b

Duplicates == {r \in SubReqs : sub[r].pc = "done" /\ sub[r].dup /\ sub[r].miss}

C7_UniqueAndConflict ==
    /\ UniquePerPair
    /\ DOMAIN applications = {sub[r].id : r \in Created}
    /\ \A r \in Duplicates :
          /\ ~sub[r].created
          /\ sub[r].code = IF sub[r].job_ok THEN 409 ELSE 404

\* C7 as the claim has it: such a submission always fails with 409
C7_Original ==
    /\ UniquePerPair
    /\ \A r \in Duplicates : ~sub[r].created /\ sub[r].code = 409

\* a second submission for the pair with another token was refused with 409
C7_Witness ==
    \E r \in Duplicates, q \in Created :
        /\ sub[r].code = 409
        /\ sub[q].job_id = sub[r].job_id
        /\ sub[q].token # sub[r].token

(***************************************************************************)
(* C8. An idempotency record keeps its result identifier and its expiry    *)
(* until it expires: no step overwrites the value or the expiry of an      *)
(* existing unexpired key.  Stated as the claim has it.                    *)
(***************************************************************************)
C8_RecordNeverOverwritten ==
    [][\A k \in DOMAIN idem :
          idem[k].expires > now => (k \in DOMAIN idem' /\ idem'[k] = idem[k])]_vars

(***************************************************************************)
(* C9. An idempotency record exists only for a submission whose            *)
(* application is committed: a live key never maps to an identifier that   *)
(* is absent from the committed store.  Stated as the claim has it.        *)
(***************************************************************************)
C9_RecordOnlyForCommitted ==
    \A k \in DOMAIN idem :
        idem[k].expires > now => idem[k].value \in DOMAIN applications

ExpectedWait(k) == IF k = 1 THEN 1 ELSE 4

\* the workers between a failed attempt and the requeue that follows it
Waiting == {w \in Workers : wpc[w] \in {"sleep", "requeue"}}

\* the k-th failure starts a wait of ExpectedWait(k) seconds, the wait ends
\* no earlier than that, and the requeue that follows appends the task
BackoffStep ==
    /\ \A w \in Workers :
         /\ (wpc[w] = "process_task" /\ wpc'[w] = "sleep") =>
                /\ wtask'[w].attempts = wtask[w].attempts + 1
                /\ wdelay'[w] = ExpectedWait(wtask'[w].attempts)
                /\ wwake'[w] = now + ExpectedWait(wtask'[w].attempts)
         /\ (wpc[w] = "sleep" /\ wpc'[w] = "requeue") => now >= wwake[w]
         /\ (wpc[w] = "requeue" /\ wpc'[w] = "dequeue") =>
                /\ Len(queue') = Len(queue) + 1
                /\ queue'[Len(queue')].id = wtask[w].id
                /\ queue'[Len(queue')].attempts = wtask[w].attempts
                /\ queue'[Len(queue')].error = wtask[w].error
    /\ (Len(queue') > Len(queue) /\ queue'[Len(queue')].attempts > 0) =>
         \E w \in Workers : wpc[w] = "requeue" /\ wpc'[w] = "dequeue"

\* C25: on the k-th failure of a task, k < 3, the worker waits 1 second
\* (k = 1) or 4 seconds (k = 2) and only then appends the task to the main
\* queue with attempts = k and the error recorded; during the wait the task
\* is in neither list.
C25_BackoffThenRequeue ==
    /\ [](\A w \in Waiting :
            /\ wtask[w].attempts \in 1..(MAX_RETRIES - 1)
            /\ wtask[w].error # <<>>
            /\ ~InQueue(wtask[w].id)
            /\ ~InDlq(wtask[w].id))
    /\ [][BackoffStep]_vars

\* the second failure happened, 4 seconds passed and the task is back in the
\* main queue with attempts = 2 and the error
C25_Witness ==
    /\ queue # <<>>
    /\ Head(queue).attempts = 2
    /\ Head(queue).error # <<>>
    /\ Len(failures[Head(queue).id]) = 2
    /\ now = MaxBackoffSeconds

(***************************************************************************)
(* C26: what process_once returns.                                         *)
(***************************************************************************)
\* process_once of worker w returns True in this step
ReturnsTrue(w) == wret[w] # "true" /\ wret'[w] = "true"

\* process_once of worker w returns False in this step
ReturnsFalse(w) == wret[w] # "false" /\ wret'[w] = "false"

\* the handler and the commit of the task worker w holds succeed in this step
CommitSucceeds(w) ==
    /\ wpc[w] = "process_task"
    /\ commits'[wtask[w].id] = commits[wtask[w].id] + 1

ReturnValues ==
    \A w \in Workers :
      /\ ReturnsTrue(w) <=> CommitSucceeds(w)
      /\ ReturnsTrue(w) => queue' = queue /\ dlq' = dlq
      /\ ReturnsFalse(w) =>
            \/ /\ wpc[w] = "dequeue"
               /\ queue = <<>>
               /\ queue' = queue
               /\ dlq' = dlq
               /\ wpc'[w] = "dequeue"
            \/ /\ wpc[w] = "requeue"
               /\ queue' = Append(queue, json_dumps(wtask[w]))
               /\ dlq' = dlq
            \/ /\ wpc[w] = "push_dlq"
               /\ dlq' = Append(dlq, json_dumps(wtask[w]))
               /\ queue' = queue
      /\ (wpc[w] = "dequeue" /\ queue = <<>> /\ wret'[w] # wret[w]) => ReturnsFalse(w)
      /\ (wpc[w] \in {"requeue", "push_dlq"} /\ wpc'[w] = "dequeue") => ReturnsFalse(w)

\* C26: process_once returns True exactly when the handler and the commit
\* of the task it dequeued succeeded, and then the task is appended to no
\* list; it returns False when no task became available (both lists
\* unchanged, nothing raised), when the failed task was requeued and when
\* it was dead-lettered.
C26_ReturnValueOfProcessOnce == [][ReturnValues]_vars

\* one worker has returned True for a task, the other has returned False
\* after dead-lettering another task
C26_Witness ==
    /\ wret["w1"] = "true"
    /\ wret["w2"] = "false"
    /\ \E t \in TaskIds : commits[t] = 1
    /\ dlq # <<>>

(***************************************************************************)
(* C27: a task whose type has no handler.                                  *)
(***************************************************************************)
NoHandler(task) == task.type \notin TASK_HANDLERS

\* the workers that hold a task whose type has no handler
HoldingUnknown == {w \in Workers : wtask[w] # NoTask /\ NoHandler(wtask[w])}

\* the attempt on a task without a handler is counted as a failure, and
\* the step after it is the retry below MAX_RETRIES, the dead-letter push
\* at MAX_RETRIES
UnknownTypeStep ==
    \A w \in HoldingUnknown :
      /\ (wpc[w] = "process_task" /\ wpc'[w] # "process_task") =>
            /\ wtask'[w].attempts = wtask[w].attempts + 1
            /\ wtask'[w].error = <<"Unknown task type">>
            /\ wpc'[w] = IF wtask'[w].attempts < MAX_RETRIES THEN "sleep" ELSE "push_dlq"
            /\ commits' = commits
            /\ queue' = queue
            /\ dlq' = dlq
      /\ (wpc[w] = "requeue" /\ wpc'[w] # "requeue") =>
            /\ wtask[w].attempts < MAX_RETRIES
            /\ queue' = Append(queue, json_dumps(wtask[w]))
            /\ dlq' = dlq
            /\ wpc'[w] = "dequeue"
      /\ (wpc[w] = "push_dlq" /\ wpc'[w] # "push_dlq") =>
            /\ wtask[w].attempts = MAX_RETRIES
            /\ dlq' = Append(dlq, json_dumps(wtask[w]))
            /\ queue' = queue
            /\ wpc'[w] = "dequeue"

\* C27: a task whose type has no registered handler is an ordinary failed
\* attempt: attempts is incremented, the task is requeued while attempts <
\* 3 and dead-lettered when attempts reaches 3, and the worker's loop goes
\* on.
C27_UnknownTypeIsOrdinaryFailure ==
    /\ [](/\ \A w \in Workers : wpc[w] \notin {"raised", "stopped"}
          /\ \A w \in HoldingUnknown : wpc[w] \in {"process_task", "sleep", "requeue", "push_dlq"}
          /\ \A i \in 1..Len(queue) : NoHandler(queue[i]) => queue[i].attempts < MAX_RETRIES
          /\ \A i \in 1..Len(dlq) : NoHandler(dlq[i]) => dlq[i].attempts = MAX_RETRIES
          /\ \A i \in 1..Len(returned) : NoHandler(returned[i]) => commits[i] = 0)
    /\ [][UnknownTypeStep]_vars

\* a task without a handler was tried three times and dead-lettered, and
\* the worker that did it is back at its dequeue
C27_Witness ==
    /\ dlq # <<>>
    /\ NoHandler(Head(dlq))
    /\ Head(dlq).attempts = MAX_RETRIES
    /\ Head(dlq).error = <<"Unknown task type">>
    /\ Len(failures[Head(dlq).id]) = MAX_RETRIES
    /\ \E w \in Workers : wpc[w] = "dequeue" /\ wret[w] = "false"

(***************************************************************************)
(* C28: the transaction of one handler invocation.                         *)
(***************************************************************************)
RECURSIVE CommitsUpTo(_)
\* the committed handler invocations of the tasks 1..n
CommitsUpTo(n) == IF n = 0 THEN 0 ELSE commits[n] + CommitsUpTo(n - 1)

\* the attempt of worker w fails in this step: the handler or its commit
\* raised
AttemptFails(w) ==
    /\ wpc[w] \in {"process_task", "commit"}
    /\ wtask'[w].id = wtask[w].id
    /\ wtask'[w].attempts = wtask[w].attempts + 1

\* worker w carries out the retry or the dead-letter push of its task
RetryOrDeadLetter(w) ==
    \/ /\ wpc[w] = "requeue"
       /\ queue' = Append(queue, json_dumps(wtask[w]))
       /\ dlq' = dlq
    \/ /\ wpc[w] = "push_dlq"
       /\ dlq' = Append(dlq, json_dumps(wtask[w]))
       /\ queue' = queue

TxnStep ==
    /\ \A w \in Workers :
         /\ AttemptFails(w) =>
               /\ audit_logs' = audit_logs
               /\ commits' = commits
               /\ queue' = queue
               /\ dlq' = dlq
               /\ wpc'[w] \in {"sleep", "push_dlq"}
         /\ (wpc[w] \in {"sleep", "requeue", "push_dlq"} /\ wtask'[w] # wtask[w]) =>
               RetryOrDeadLetter(w)
    /\ audit_logs' # audit_logs =>
         \E w \in Workers :
            /\ wpc[w] = "commit"
            /\ wret'[w] = "true"
            /\ audit_logs' = Append(audit_logs, AsyncAudit(wtask[w]))
            /\ commits'[wtask[w].id] = commits[wtask[w].id] + 1

StoreUnchanged ==
    /\ applications' = applications
    /\ status_history' = status_history
    /\ audit_logs' = audit_logs

\* a submission gets past the lookup only with what the store answered,
\* and past the record write only with the record written; when it ends at
\* one of the two calls it ends as a failed request with nothing committed
IdemCallStep ==
    \A r \in SubReqs :
      /\ (sub[r].pc = "idem_get" /\ sub'[r].pc \notin {"idem_get", "done"}) =>
            sub'[r].existing_id = redis_get(idem, idem_key(sub[r].user, sub[r].token))
      /\ (sub[r].pc = "setex" /\ sub'[r].pc \notin {"setex", "done"}) =>
            /\ idem_key(sub[r].user, sub[r].token) \in DOMAIN idem'
            /\ idem'[idem_key(sub[r].user, sub[r].token)].value = sub[r].app
      /\ (sub[r].pc \in {"idem_get", "setex"} /\ sub'[r].pc = "done") =>
            /\ sub'[r].code = 500
            /\ sub'[r].id = NoApp
            /\ ~sub'[r].created
            /\ StoreUnchanged
            /\ sub[r].app \notin DOMAIN applications'

\* C29: when the idempotency lookup or the idempotency record write fails
\* during a submission, the request fails: no success response is returned
\* and no application, history record or audit record is committed.
C29_IdemFailureFailsRequest ==
    /\ [](/\ \A r \in SubReqs : sub[r].pc = "done" /\ sub[r].code = 500 =>
                 sub[r].id = NoApp /\ ~sub[r].created
          /\ \A a \in DOMAIN applications :
                 \E r \in SubReqs : /\ sub[r].pc = "done"
                                    /\ sub[r].code = 201
                                    /\ sub[r].id = a
                                    /\ sub[r].created
          /\ Len(status_history) = Cardinality(DOMAIN applications)
          /\ Len(audit_logs) = Cardinality(DOMAIN applications))
    /\ [][IdemCallStep]_vars

\* one submission failed at the record write (it had seen the job active),
\* another at the lookup, and nothing is committed
C29_Witness ==
    /\ \E r \in SubReqs : /\ sub[r].pc = "done"
                          /\ sub[r].code = 500
                          /\ sub[r].job_ok
    /\ \E r \in SubReqs : /\ sub[r].pc = "done"
                          /\ sub[r].code = 500
                          /\ ~sub[r].job_ok
                          /\ ~sub[r].miss
    /\ applications = <<>>
    /\ status_history = <<>>
    /\ audit_logs = <<>>

(***************************************************************************)
(* C30: the order of dispatch with one worker.                             *)
(***************************************************************************)
\* the main queue holds the newest enqueue calls, oldest first
QueueIsSuffixOfCalls ==
    \A i \in 1..Len(queue) :
       /\ Len(queue) <= Len(returned)
       /\ queue[i] = json_dumps(returned[Len(returned) - Len(queue) + i])

\* the handler invocations so far are those of the tasks 1..k, and the
\* task handed to a handler in this step is the one of enqueue call k + 1
DispatchStep ==
    \A w \in Workers :
      (wpc[w] = "process_task" /\ wpc'[w] = "commit") =>
         /\ wtask[w].id = CommitsUpTo(MaxTasks) + 1
         /\ \A t \in TaskIds : commits[t] = IF t < wtask[w].id THEN 1 ELSE 0
         /\ wtask[w] = json_loads(json_dumps(returned[wtask[w].id]))

\* C30: with a single worker and no handler failures, tasks are
\* dispatched to handlers in exactly the order in which their enqueue calls
\* appended them to the main queue.
C30_SingleWorkerDispatchesInOrder ==
    [](QueueIsSuffixOfCalls) /\ [][DispatchStep]_vars

\* the task of the second enqueue call is with its handler after the task
\* of the first was handled
C30_Witness ==
    /\ wpc["w1"] = "commit"
    /\ wtask["w1"].id = 2
    /\ commits[1] = 1
    /\ wpc["w2"] = "stopped"

(***************************************************************************)
(* C31: where a requeued task goes.                                        *)
(***************************************************************************)
\* the main queue changes only at its two ends: an entry is appended behind
\* those that are there, or the head is taken and the rest keeps its order
QueueEndsOnly ==
    \/ queue' = queue
    \/ queue # <<>> /\ queue' = Tail(queue)
    \/ /\ Len(queue') = Len(queue) + 1
       /\ SubSeq(queue', 1, Len(queue)) = queue

\* the requeue of worker w appends its task behind every entry, with the
\* attempts counted so far and the error of the last failure
RequeueStep ==
    \A w \in Workers :
      (wpc[w] = "requeue" /\ wpc'[w] = "dequeue") =>
         LET t == wtask[w].id
             last == queue'[Len(queue')]
         IN  /\ Len(queue') = Len(queue) + 1
             /\ SubSeq(queue', 1, Len(queue)) = queue
             /\ last.id = t
             /\ last.attempts = Len(failures[t])
             /\ last.attempts >= 1
             /\ last.error = <<failures[t][Len(failures[t])]>>

\* C31: a requeued task is appended at the tail of the main queue, so it
\* is dequeued after every task that was in the main queue at the moment
\* of the requeue, and it carries the incremented attempts and the last
\* error.
C31_RequeuedTaskGoesToTail == [][QueueEndsOnly /\ RequeueStep]_vars

\* a task that failed once was requeued behind a task that had not been
\* tried yet
C31_Witness ==
    /\ Len(queue) = 2
    /\ queue[1].attempts = 0
    /\ queue[2].attempts = 1
    /\ queue[2].error # <<>>
    /\ \A w \in Workers : wtask[w] = NoTask

(***************************************************************************)
(* C32: the read-through cache of the job reads.                           *)
(***************************************************************************)
\* the lookups that find an entry which is there and has not expired
LiveLookups ==
    {r \in RdReqs : /\ rd[r].pc = "get_cached"
                    /\ rd'[r] # rd[r]
                    /\ get_cached(rd[r].key) # None}

\* the request is answered from the entry and the committed rows are not
\* read
AnsweredFromCache(r) ==
    /\ rd'[r].pc = "done"
    /\ rd'[r].code = 200
    /\ rd'[r].hit
    /\ rd'[r].cached_for = now - cache[rd[r].key].value.at
    /\ cache' = cache

\* the keys whose entry is written in this step
WrittenKeys ==
    {k \in DOMAIN cache' :
        \/ k \notin DOMAIN cache
        \/ cache'[k].expires # cache[k].expires
        \/ cache'[k].value.data # cache[k].value.data
        \/ cache'[k].value.at # cache[k].value.at}

\* the cache is written by a request that went on to its query, under its
\* own key and with what its query returned from the committed rows
WriteAfterQuery ==
    /\ \A k \in WrittenKeys :
          \E r \in RdReqs : /\ rd[r].pc = "set_cached"
                            /\ rd'[r].pc = "done"
                            /\ rd[r].key = k
                            /\ cache'[k].value.data = rd[r].data
    /\ \A r \in RdReqs :
          (rd[r].pc = "query" /\ rd'[r].pc = "set_cached") =>
             rd'[r].data = FreshValue(rd[r].key)

\* C32, as stated: while an entry for the key is cached and unexpired a
\* read returns the cached value without reading the committed rows, and
\* the cache is written only on a miss, with the result of the query.
C32_Original ==
    [][/\ \A r \in LiveLookups : AnsweredFromCache(r)
       /\ WriteAfterQuery]_vars

\* C32: while an entry for the key is cached and unexpired, a read whose
\* cache lookup succeeds returns the cached value without reading the
\* committed rows, even if they changed without an invalidation; a lookup
\* that fails is taken for a miss.  The cache is written only after a miss
\* or a failed lookup, with the result of the query.
C32_LiveEntryAnswersSuccessfulLookup ==
    [][/\ \A r \in LiveLookups :
             \/ AnsweredFromCache(r)
             \/ rd'[r].pc = "query" /\ rd'[r].masked
       /\ \A r \in RdReqs :
             (rd[r].pc = "get_cached" /\ rd'[r].pc = "query" /\ ~rd'[r].masked) =>
                get_cached(rd[r].key) = None
       /\ WriteAfterQuery]_vars

\* a read was answered from an entry that disagreed with the committed
\* rows
C32_Witness ==
    \E r \in RdReqs : rd[r].pc = "done" /\ rd[r].hit /\ rd[r].stale_for # {}

(***************************************************************************)
(* C33: a worker in its backoff delay.                                     *)
(***************************************************************************)
\* the workers inside await asyncio.sleep(delay)
InBackoff == {w \in Workers : wpc[w] = "sleep"}

\* a worker in its backoff delay keeps the failed task and nothing else:
\* its next step is the end of the delay, and an entry that leaves the main
\* queue is taken by a worker that is at its dequeue
BackoffBlocks ==
    /\ \A w \in InBackoff :
          /\ wtask'[w] = wtask[w]
          /\ wpc'[w] \in {"sleep", "requeue"}
          /\ wret'[w] = wret[w]
    /\ (queue # <<>> /\ queue' = Tail(queue)) =>
          \E v \in Workers \ InBackoff :
             /\ wpc[v] = "dequeue"
             /\ wtask'[v] = json_loads(Head(queue))
    /\ \A t \in TaskIds :
          commits'[t] # commits[t] =>
             \E v \in Workers \ InBackoff : wtask[v].id = t /\ wpc[v] = "process_task"

\* C33: while a worker is in the backoff delay for a failed task it
\* dequeues and processes no other task, even when the main queue is not
\* empty.
C33_BackoffBlocksWorker ==
    /\ [](\A w \in InBackoff : wtask[w] # NoTask /\ wtask[w].attempts >= 1)
    /\ [][BackoffBlocks]_vars

\* a worker is in its backoff delay while a task waits in the main queue
\* and the other worker is at its dequeue
C33_Witness ==
    /\ wpc["w1"] = "sleep"
    /\ queue # <<>>
    /\ Head(queue).attempts = 0
    /\ wpc["w2"] = "dequeue"

(***************************************************************************)
(* C34: the dead-letter list only grows.                                   *)
(***************************************************************************)
\* the dead-letter list keeps its entries in their places, and nothing is
\* done with a task that is in it
DlqKept ==
    /\ Len(dlq') >= Len(dlq)
    /\ SubSeq(dlq', 1, Len(dlq)) = dlq
    /\ \A i \in 1..Len(dlq) :
          /\ commits'[dlq[i].id] = commits[dlq[i].id]
          /\ failures'[dlq[i].id] = failures[dlq[i].id]

\* C34: no operation removes a task from the dead-letter list or moves it
\* back to the main queue: the dead-letter depth never decreases and a
\* dead-lettered task is never dispatched to a handler again.
C34_DeadLetterIsFinal ==
    /\ [](\A i \in 1..Len(dlq) :
            /\ ~InQueue(dlq[i].id)
            /\ Holders(dlq[i].id) = {})
    /\ [][DlqKept]_vars

\* a task is in the dead-letter list while the workers have gone on with
\* another task, which is dead-lettered behind it
C34_Witness ==
    /\ Len(dlq) = 2
    /\ dlq[1].id # dlq[2].id
    /\ queue = <<>>

(***************************************************************************)
(* C35: the range of attempts.                                             *)
(***************************************************************************)
\* the times task t has been handed to process_task
Dispatches(t) ==
    Len(failures[t]) + commits[t] +
    Cardinality({w \in Workers : wtask[w].id = t /\ wpc[w] = "process_task"})

\* C35: every task in the main queue has 0 <= attempts <= 2 and every task
\* in the dead-letter list has attempts = 3; a task is dispatched to a
\* handler at most 3 times, and the only backoff delays applied are 1 s and
\* 4 s.
C35_AttemptsInRange ==
    /\ \A i \in 1..Len(queue) : queue[i].attempts \in 0..(MAX_RETRIES - 1)
    /\ \A i \in 1..Len(dlq) : dlq[i].attempts = MAX_RETRIES
    /\ \A t \in TaskIds : Dispatches(t) <= MAX_RETRIES
    /\ \A w \in Workers :
          /\ wpc[w] \in {"sleep", "requeue"} => wdelay[w] \in {1, 4}
          /\ wdelay[w] # BACKOFF_SECONDS[Len(BACKOFF_SECONDS)]

\* one task is dead-lettered after three dispatches while a worker waits
\* 4 s with another task that has failed twice
C35_Witness ==
    /\ dlq # <<>>
    /\ Dispatches(Head(dlq).id) = MAX_RETRIES
    /\ \E w \in Workers : wpc[w] = "sleep" /\ wdelay[w] = 4 /\ wtask[w].attempts = 2

(***************************************************************************)
(* C36: one commit per task.                                               *)
(***************************************************************************)
\* the tasks with a committed handler invocation
Committed == {t \in TaskIds : commits[t] > 0}

C37_DifferentResultsDifferentKeys ==
    \A r1, r2 \in RdReqs :
       (/\ rd[r1].pc = "listed"
        /\ rd[r2].pc = "listed"
        /\ rd[r1].user = rd[r2].user
        /\ rd[r1].data # rd[r2].data) => rd[r1].key # rd[r2].key

(***************************************************************************)
(* C38. In every committed state an application has a non-empty history    *)
(* whose first record is 'applied' by the applicant, and its status is the *)
(* status of the history record appended last, under any interleaving of   *)
(* submissions and status updates.                                         *)
(***************************************************************************)
\* the committed history rows of an application, in the order they were
\* appended
HistoryOf(a) == SelectSeq(status_history, LAMBDA h : h.application_id = a)

Replaying ==
    {r \in SubReqs : /\ sub[r].pc = "get_existing"
                     /\ sub[r].existing_id \in DOMAIN applications
                     /\ sub'[r] # sub[r]}

ReplayStep ==
    \A r \in Replaying :
       /\ sub'[r].pc = "done"
       /\ sub'[r].code = 201
       /\ sub'[r].id = sub[r].existing_id
       /\ ~sub'[r].created
       /\ ~sub'[r].job_ok
       /\ UNCHANGED <<applications, status_history, audit_logs, idem, nextApp,
                      queue, dlq, enqueued>>

C39_ReplayWritesNothing == [][ReplayStep]_vars

\* a replay answered with an application for another job than the one it
\* asked for, which is archived
C39_Witness ==
    \E r \in SubReqs :
       /\ sub[r].pc = "done" /\ sub[r].code = 201
       /\ ~sub[r].created /\ ~sub[r].miss /\ ~sub[r].job_ok
       /\ sub[r].id \in DOMAIN applications
       /\ applications[sub[r].id].job_id # sub[r].job_id
       /\ jobs[sub[r].job_id].status = "archived"

====
